---- MODULE Spec2Model ----
(***************************************************************************)
(* Text engine of gpui-editor: the rope buffer with its transaction log    *)
(* (src/src/buffer.rs), the Document with its debounced highlight job      *)
(* (src/src/document.rs) and the Editor's edit paths                       *)
(* (src/crates/editor/src/editor.rs, actions.rs, editor_element.rs).       *)
(* The selection and the cursor blink (editor.rs, cursor_blink.rs) are     *)
(* followed in SpecCursor, the layout cache of a long document in          *)
(* SpecCache.                                                              *)
(*                                                                         *)
(* A text is a sequence of characters; a character is one of the strings   *)
(* "a", "e_acute", "LF", "CR", " " and ",": "e_acute" stands for a         *)
(* two-byte UTF-8 character, "LF" for the line feed, "CR" for the carriage *)
(* return.  Ranges are pairs start/end of character offsets.  Lines are    *)
(* broken at line feeds.                                                   *)
(***************************************************************************)
EXTENDS Integers, Sequences, FiniteSets, TLC

\* ---------------------------------------------------------------- bounds
MaxLen == 2
MaxTx == 2
MaxTime == 300
MaxVersion == 2
Tick == 150
MaxChain == 3
MaxLineText == 4
MaxWordText == 5
MaxSynText == 2
MaxSpans == 2

\* ------------------------------------------------------ program constants
DEFAULT_GROUP_INTERVAL_MS == 300
DEBOUNCE_MS == 150

\* Texts of the closures of the buffer-level specification.
InsertTexts == {<< >>, <<"a">>, <<"e_acute">>}
\* Texts a Document is constructed with.
InitialTexts == {<< >>, <<"a">>}

VARIABLES
  text,                    \* TextBuffer.text (Rope), a sequence of characters
  next_transaction_id,     \* TextBuffer.next_transaction_id
  undo_stack,              \* TextBuffer.undo_stack
  redo_stack,              \* TextBuffer.redo_stack
  group_interval,          \* TextBuffer.group_interval, in ms
  now,                     \* the monotonic clock read by Instant::now(), in ms
  panicked,                \* the process aborted in a panic
  ret,                     \* the last call made and what it returned
  initial_text,            \* the text the buffer was constructed with
  edited_text,             \* the text after the last committed transaction
  phase,                   \* "edit": only commits so far; "undo": then only
                           \* undos; "redo": then, after undo returned None,
                           \* only redos; "mixed": any other call order
  highlighter,             \* Document.highlighter is Some
  highlights,              \* Document.highlights, the span cache
  highlights_version,      \* Document.highlights_version
  pending_highlight_task,  \* Document.pending_highlight_task, the job handle
  tasks,                   \* the highlight jobs the executor still runs
  editor_undo_stack,       \* Editor.undo_stack, the transaction ids
  editor_redo_stack,       \* Editor.redo_stack, the transaction ids
  last_highlights_version, \* Editor.last_highlights_version
  line_layouts,            \* Editor.line_layouts, the cached line indices
  source_text,             \* syntax::SyntaxHighlighter.source_text
  total_lines,             \* syntax::SyntaxHighlighter.total_lines
  tree,                    \* syntax::SyntaxHighlighter.tree is Some
  highlight_cache,         \* syntax::SyntaxHighlighter.highlight_cache
  dirty_lines,             \* syntax::SyntaxHighlighter.dirty_lines
  parsed_range,            \* syntax::SyntaxHighlighter.parsed_range
  selected_range,          \* Editor.selected_range, start..end
  selection_reversed,      \* Editor.selection_reversed
  blink_epoch,             \* CursorBlink.blink_epoch
  blinking_paused,         \* CursorBlink.blinking_paused
  visible,                 \* CursorBlink.visible
  enabled,                 \* CursorBlink.enabled
  blink_timers             \* the timers CursorBlink spawned, not yet fired

bufvars == <<text, next_transaction_id, undo_stack, redo_stack, group_interval,
             now, panicked>>
obsvars == <<initial_text, edited_text, phase>>
docvars == <<highlighter, highlights, highlights_version,
             pending_highlight_task, tasks>>
edvars == <<editor_undo_stack, editor_redo_stack, last_highlights_version,
            line_layouts>>
synvars == <<source_text, total_lines, tree, highlight_cache, dirty_lines,
             parsed_range>>
\* The selection and the cursor blink are followed in SpecCursor; the other
\* specifications leave them as constructed.
cursorvars == <<selected_range, selection_reversed, blink_epoch,
                blinking_paused, visible, enabled, blink_timers>>
vars == <<bufvars, ret, obsvars, docvars, edvars, synvars, cursorvars>>

\* Option<T>: None is the empty sequence, Some(x) the sequence of x alone.
None == << >>
Some(x) == <<x>>

\* ------------------------------------------------------------ strings
\* str::len of one character: its UTF-8 length in bytes.
Utf8Len(c) == IF c = "e_acute" THEN 2 ELSE 1

RECURSIVE ByteLen(_)
\* String::len(): the length in bytes.
ByteLen(s) == IF s = << >> THEN 0 ELSE Utf8Len(Head(s)) + ByteLen(Tail(s))

\* ------------------------------------------------------------ rope
\* Rope::insert(char_idx, text); panics when char_idx > len_chars.
RopeInsertOk(t, i) == i <= Len(t)
RopeInsert(t, i, s) == SubSeq(t, 1, i) \o s \o SubSeq(t, i + 1, Len(t))

\* Rope::remove(range); panics when start > end or end > len_chars.
RopeRemoveOk(t, a, b) == a <= b /\ b <= Len(t)
RopeRemove(t, a, b) == SubSeq(t, 1, a) \o SubSeq(t, b + 1, Len(t))

\* Rope::slice(range).to_string()
slice_to_string(t, a, b) == SubSeq(t, a + 1, b)

\* ------------------------------------------------------------ operations
TextOperation(a, b, before, after) ==
  [start |-> a, end |-> b, before |-> before, after |-> after]

\* TextOperation::undo: the inverse operation; the end of its range is
\* start + after.len(), and String::len() counts bytes.
TextOperation_undo(op) ==
  TextOperation(op.start, op.start + ByteLen(op.after), op.after, op.before)

\* The outcome of running rope calls: the text, and whether no call panicked.
Outcome(t, ok) == [text |-> t, ok |-> ok]

\* TextBuffer::exec_operation
exec_operation(t, op) ==
  IF op.before = << >> /\ op.after # << >>
    THEN IF RopeInsertOk(t, op.start)
           THEN Outcome(RopeInsert(t, op.start, op.after), TRUE)
           ELSE Outcome(t, FALSE)
  ELSE IF op.before # << >> /\ op.after = << >>
    THEN IF RopeRemoveOk(t, op.start, op.end)
           THEN Outcome(RopeRemove(t, op.start, op.end), TRUE)
           ELSE Outcome(t, FALSE)
  ELSE IF op.before # << >> /\ op.after # << >>
    THEN IF RopeRemoveOk(t, op.start, op.end)
           THEN Outcome(RopeInsert(RopeRemove(t, op.start, op.end),
                                   op.start, op.after), TRUE)
           ELSE Outcome(t, FALSE)
  ELSE Outcome(t, TRUE)

RECURSIVE ExecForward(_, _)
\* redo's loop: the operations in forward order.
ExecForward(t, ops) ==
  IF ops = << >> THEN Outcome(t, TRUE)
  ELSE LET r == exec_operation(t, Head(ops))
       IN IF r.ok THEN ExecForward(r.text, Tail(ops)) ELSE r

RECURSIVE ExecReverseInverted(_, _)
\* undo's loop: the inverted operations in reverse order.
ExecReverseInverted(t, ops) ==
  IF ops = << >> THEN Outcome(t, TRUE)
  ELSE LET r == exec_operation(t, TextOperation_undo(ops[Len(ops)]))
       IN IF r.ok THEN ExecReverseInverted(r.text, SubSeq(ops, 1, Len(ops) - 1))
          ELSE r

\* ------------------------------------------------------------ closures
\* One call a transaction closure makes on the buffer.
Call(kind, a, b, s) == [kind |-> kind, start |-> a, end |-> b, text |-> s]

\* The calls with arguments in range for text t.
Calls(t) ==
  {Call("insert", a, a, s) : a \in 0..Len(t), s \in InsertTexts}
  \cup {Call("remove", a, b, << >>) :
          a \in 0..Len(t), b \in 0..Len(t)}
  \cup {Call("replace", a, b, s) :
          a \in 0..Len(t), b \in 0..Len(t), s \in InsertTexts}

CallOk(t, c) == c.start <= c.end /\ c.end <= Len(t)

\* TextBuffer::insert: records the operation, then inserts.
insert(t, a, s) ==
  [text |-> RopeInsert(t, a, s),
   ops |-> <<TextOperation(a, a, << >>, s)>>]

\* TextBuffer::remove: records the operation with the removed text.
remove(t, a, b) ==
  [text |-> RopeRemove(t, a, b),
   ops |-> <<TextOperation(a, b, slice_to_string(t, a, b), << >>)>>]

\* TextBuffer::replace: remove(range), then insert(range.start, text).
replace(t, a, b, s) ==
  LET r == remove(t, a, b)
      i == insert(r.text, a, s)
  IN [text |-> i.text, ops |-> r.ops \o i.ops]

ApplyCall(t, c) ==
  IF c.kind = "insert" THEN insert(t, c.start, c.text)
  ELSE IF c.kind = "remove" THEN remove(t, c.start, c.end)
  ELSE replace(t, c.start, c.end, c.text)

\* ------------------------------------------------------------ commit
Transaction(id, ts, ops) == [id |-> id, timestamp |-> ts, operations |-> ops]

\* Instant::saturating_duration_since
saturating_duration_since(t, earlier) == IF t >= earlier THEN t - earlier ELSE 0

Merges_inclusive(stack, interval, t) ==
  /\ stack # << >>
  /\ interval # 0
  /\ saturating_duration_since(t, stack[Len(stack)].timestamp) <= interval

\* commit_transaction's grouping test.
Merges(stack, interval, t) ==
  /\ stack # << >>
  /\ interval # 0
  /\ saturating_duration_since(t, stack[Len(stack)].timestamp) < interval

commit_undo_stack_first_id(stack, id, ops, interval, t) ==
  IF Merges(stack, interval, t)
    THEN LET last == stack[Len(stack)]
         IN [stack EXCEPT ![Len(stack)] =
               Transaction(last.id, t, last.operations \o ops)]
    ELSE Append(stack, Transaction(0, t, ops))

commit_undo_stack_stamp_kept(stack, id, ops, interval, t) ==
  IF Merges(stack, interval, t)
    THEN LET last == stack[Len(stack)]
         IN [stack EXCEPT ![Len(stack)] =
               Transaction(last.id, last.timestamp, last.operations \o ops)]
    ELSE Append(stack, Transaction(id, t, ops))

\* TextBuffer::commit_transaction: the undo stack after the commit.
commit_undo_stack(stack, id, ops, interval, t) ==
  IF Merges(stack, interval, t)
    THEN LET last == stack[Len(stack)]
         IN [stack EXCEPT ![Len(stack)] =
               Transaction(last.id, t, last.operations \o ops)]
    ELSE Append(stack, Transaction(id, t, ops))

\* The id commit_transaction returns.
commit_id(stack, id, interval, t) ==
  IF Merges(stack, interval, t) THEN stack[Len(stack)].id ELSE id

commit_redo_stack_kept(stack) == stack

\* The redo stack after a commit.
commit_redo_stack(stack) == << >>

\* ------------------------------------------------------------ transaction
ValidCalls(t) == {c \in Calls(t) : CallOk(t, c)}

\* The calls of the two-call closures: inserts of one character.
InsertCalls(t) == {c \in ValidCalls(t) : c.kind = "insert" /\ c.text # << >>}

\* The closures of the buffer-level specification: no call, one call, or
\* two inserts, the second made on the text the first one left.
Closures(t) ==
  {<< >>}
  \cup {<<c>> : c \in ValidCalls(t)}
  \cup UNION {{<<c1, c2>> : c2 \in InsertCalls(ApplyCall(t, c1).text)} :
                c1 \in InsertCalls(t)}

RECURSIVE RunClosure(_, _)
\* Runs the calls of a closure in order: the text and the operations the
\* TransactionContext collected.
RunClosure(t, calls) ==
  IF calls = << >> THEN [text |-> t, ops |-> << >>]
  ELSE LET r == ApplyCall(t, Head(calls))
           rest == RunClosure(r.text, Tail(calls))
       IN [text |-> rest.text, ops |-> r.ops \o rest.ops]

transaction_always_commits(calls) ==
  LET r == RunClosure(text, calls)
  IN [text |-> r.text,
      undo_stack |-> commit_undo_stack(undo_stack, next_transaction_id,
                                       r.ops, group_interval, now),
      redo_stack |-> commit_redo_stack(redo_stack),
      next_transaction_id |-> next_transaction_id + 1,
      id |-> commit_id(undo_stack, next_transaction_id, group_interval, now),
      committed |-> TRUE]

\* TextBuffer::transaction(now, f): the buffer after it and the id returned.
transaction(calls) ==
  LET r == RunClosure(text, calls)
  IN IF r.ops # << >>
       THEN [text |-> r.text,
             undo_stack |-> commit_undo_stack(undo_stack, next_transaction_id,
                                              r.ops, group_interval, now),
             redo_stack |-> commit_redo_stack(redo_stack),
             next_transaction_id |-> next_transaction_id + 1,
             id |-> commit_id(undo_stack, next_transaction_id,
                              group_interval, now),
             committed |-> TRUE]
       ELSE [text |-> r.text,
             undo_stack |-> undo_stack,
             redo_stack |-> redo_stack,
             next_transaction_id |-> next_transaction_id,
             id |-> next_transaction_id,
             committed |-> FALSE]

undo_none_clears_redo ==
  IF undo_stack = << >>
    THEN [text |-> text, undo_stack |-> undo_stack, redo_stack |-> << >>,
          id |-> None, ok |-> TRUE]
    ELSE LET tx == undo_stack[Len(undo_stack)]
             r == ExecReverseInverted(text, tx.operations)
         IN [text |-> r.text,
             undo_stack |-> SubSeq(undo_stack, 1, Len(undo_stack) - 1),
             redo_stack |-> Append(redo_stack, tx),
             id |-> Some(tx.id), ok |-> r.ok]

undo_takes_bottom ==
  IF undo_stack = << >>
    THEN [text |-> text, undo_stack |-> undo_stack, redo_stack |-> redo_stack,
          id |-> None, ok |-> TRUE]
    ELSE LET tx == undo_stack[1]
             r == ExecReverseInverted(text, tx.operations)
         IN [text |-> r.text,
             undo_stack |-> SubSeq(undo_stack, 2, Len(undo_stack)),
             redo_stack |-> Append(redo_stack, tx),
             id |-> Some(tx.id), ok |-> r.ok]

\* TextBuffer::undo: None on an empty undo stack.
undo ==
  IF undo_stack = << >>
    THEN [text |-> text, undo_stack |-> undo_stack, redo_stack |-> redo_stack,
          id |-> None, ok |-> TRUE]
    ELSE LET tx == undo_stack[Len(undo_stack)]
             r == ExecReverseInverted(text, tx.operations)
         IN [text |-> r.text,
             undo_stack |-> SubSeq(undo_stack, 1, Len(undo_stack) - 1),
             redo_stack |-> Append(redo_stack, tx),
             id |-> Some(tx.id), ok |-> r.ok]

\* TextBuffer::redo: None on an empty redo stack.
redo ==
  IF redo_stack = << >>
    THEN [text |-> text, undo_stack |-> undo_stack, redo_stack |-> redo_stack,
          id |-> None, ok |-> TRUE]
    ELSE LET tx == redo_stack[Len(redo_stack)]
             r == ExecForward(text, tx.operations)
         IN [text |-> r.text,
             undo_stack |-> Append(undo_stack, tx),
             redo_stack |-> SubSeq(redo_stack, 1, Len(redo_stack) - 1),
             id |-> Some(tx.id), ok |-> r.ok]

Ret(op, val) == [op |-> op, val |-> val]

\* ------------------------------------------------------------ observers
PhaseAfterCommit == IF phase = "edit" THEN "edit" ELSE "mixed"
PhaseAfterUndo == IF phase \in {"edit", "undo"} THEN "undo" ELSE "mixed"
PhaseAfterRedo ==
  IF phase = "redo" \/ (phase = "undo" /\ undo_stack = << >>)
    THEN "redo" ELSE "mixed"

\* ------------------------------------------------------------ highlighting
HighlightSpan(a, b, tt) == [start |-> a, end |-> b, token_type |-> tt]

RECURSIVE Scan(_, _, _, _, _)
\* The events of the tokenizer turned into spans, as highlight_text's loop
\* does: one span of bytes for each maximal run of characters other than the
\* line feed.  i is the next character, off its byte offset, run the byte
\* offset at which the open run started (-1: none).
Scan(t, i, off, run, acc) ==
  IF i > Len(t)
    THEN IF run >= 0 THEN Append(acc, HighlightSpan(run, off, "Variable"))
         ELSE acc
  ELSE IF t[i] = "LF"
    THEN Scan(t, i + 1, off + 1, -1,
              IF run >= 0 THEN Append(acc, HighlightSpan(run, off, "Variable"))
              ELSE acc)
  ELSE Scan(t, i + 1, off + Utf8Len(t[i]), IF run >= 0 THEN run ELSE off, acc)

\* SyntaxHighlighter::highlight_text on success.
highlight_text(t) == Scan(t, 1, 0, -1, << >>)

\* A highlight job: the future spawned by schedule_recompute_highlights.
\* stage "timer": waiting for the debounce timer; "computing": the timer
\* fired and the background work runs on the text captured at scheduling.
\* held: Document.pending_highlight_task is the handle of this job.
Task(stage, t, deadline, held) ==
  [stage |-> stage, text |-> t, deadline |-> deadline, held |-> held]

NotHeld(k) == ~k.held

Detach(k) == [k EXCEPT !.held = FALSE]

DetachAll(ts) == [i \in DOMAIN ts |-> Detach(ts[i])]

\* Storing a new handle without cancelling the job of the old one.
schedule_recompute_highlights_detach(ts, hl, t, time) ==
  IF ~hl THEN [tasks |-> DetachAll(ts), pending |-> None]
  ELSE [tasks |-> Append(DetachAll(ts), Task("timer", t, time + DEBOUNCE_MS, TRUE)),
        pending |-> Some("task")]

\* Document::schedule_recompute_highlights: dropping the held handle cancels
\* its job; with a highlighter a new job is spawned on the current text, which
\* first waits out the debounce timer.
schedule_recompute_highlights(ts, hl, t, time) ==
  LET dropped == SelectSeq(ts, NotHeld)
  IN IF ~hl THEN [tasks |-> dropped, pending |-> None]
     ELSE [tasks |-> Append(dropped, Task("timer", t, time + DEBOUNCE_MS, TRUE)),
           pending |-> Some("task")]

RemoveAt(seq, i) == SubSeq(seq, 1, i - 1) \o SubSeq(seq, i + 1, Len(seq))

\* ------------------------------------------------------------ lines
RECURSIVE CountLF(_)
CountLF(t) ==
  IF t = << >> THEN 0
  ELSE (IF Head(t) = "LF" THEN 1 ELSE 0) + CountLF(Tail(t))

len_lines_breaks_only(t) == CountLF(t)

\* Rope::len_lines
len_lines(t) == 1 + CountLF(t)

\* Rope::char_to_line: the line breaks before the offset.
char_to_line(t, idx) == CountLF(SubSeq(t, 1, idx))

\* Rope::line_to_char: the offset at which the line starts, that is the
\* first offset with line_idx line breaks before it.
line_to_char(t, line_idx) ==
  CHOOSE idx \in 0..Len(t) :
    /\ char_to_line(t, idx) = line_idx
    /\ \A j \in 0..(idx - 1) : char_to_line(t, j) < line_idx

\* A line range that stops before the line break of the line.
line_range_without_break(t, line_idx) ==
  IF line_idx < len_lines(t)
    THEN Some([start |-> line_to_char(t, line_idx),
               end |-> IF line_idx + 1 < len_lines(t)
                         THEN line_to_char(t, line_idx + 1) - 1
                         ELSE Len(t)])
    ELSE None

\* TextBuffer::line_range: from the start of the line to the start of the
\* next one, or to the end of the text for the last line.
line_range(t, line_idx) ==
  IF line_idx < len_lines(t)
    THEN Some([start |-> line_to_char(t, line_idx),
               end |-> IF line_idx + 1 < len_lines(t)
                         THEN line_to_char(t, line_idx + 1)
                         ELSE Len(t)])
    ELSE None

\* Document::get_highlights_for_line: the spans of the cache that intersect
\* the range of the line, None when there is no such line or no such span.
get_highlights_for_line(hl, t, line_idx) ==
  LET r == line_range(t, line_idx)
  IN IF r = None THEN None
     ELSE LET Intersects(h) == h.start < r[1].end /\ h.end > r[1].start
              line_highlights == SelectSeq(hl, Intersects)
          IN IF line_highlights = << >> THEN None
             ELSE Some(line_highlights)

\* Editor::invalidate_line
invalidate_line(layouts, line) == layouts \ {line}

invalidate_lines_from_after(layouts, start_line) ==
  {l \in layouts : l <= start_line}

\* Editor::invalidate_lines_from
invalidate_lines_from(layouts, start_line) ==
  {l \in layouts : l < start_line}

\* Editor::record_transaction, on the ids: a known id leaves the stacks as
\* they are, a new one is pushed and clears the Editor's redo stack.
InStack(stack, id) == \E i \in DOMAIN stack : stack[i] = id

record_transaction(id) ==
  IF InStack(editor_undo_stack, id)
    THEN [undo |-> editor_undo_stack, redo |-> editor_redo_stack]
    ELSE [undo |-> Append(editor_undo_stack, id), redo |-> << >>]

\* ------------------------------------------------------------ construction
\* TextBuffer::from_text for the buffer; Document::with_text (no highlighter)
\* or Document::with_text_and_language, which schedules the first job.
Init ==
  /\ text \in InitialTexts
  /\ next_transaction_id = 0
  /\ undo_stack = << >>
  /\ redo_stack = << >>
  /\ group_interval \in {0, DEFAULT_GROUP_INTERVAL_MS}
  /\ now = 0
  /\ panicked = FALSE
  /\ ret = Ret("new", None)
  /\ initial_text = text
  /\ edited_text = text
  /\ phase = "edit"
  /\ highlighter \in BOOLEAN
  /\ highlights = << >>
  /\ highlights_version = 0
  /\ LET s == schedule_recompute_highlights(<< >>, highlighter, text, now)
     IN /\ tasks = s.tasks
        /\ pending_highlight_task = s.pending
  /\ editor_undo_stack = << >>
  /\ editor_redo_stack = << >>
  /\ last_highlights_version = 0
  /\ line_layouts = {}
  /\ source_text = << >>
  /\ total_lines = 0
  /\ tree = FALSE
  /\ highlight_cache = << >>
  /\ dirty_lines = {}
  /\ parsed_range = None
  /\ selected_range = [start |-> 0, end |-> 0]
  /\ selection_reversed = FALSE
  /\ blink_epoch = 1
  /\ blinking_paused = FALSE
  /\ visible = TRUE
  /\ enabled = TRUE
  /\ blink_timers = {[kind |-> "blink", epoch |-> 1]}

\* ------------------------------------------------------------ buffer steps
\* buffer.transaction(Instant::now(), f)
BufTransaction ==
  /\ ~panicked
  /\ next_transaction_id < MaxTx
  /\ \E calls \in Closures(text) :
       LET r == transaction(calls)
       IN /\ Len(r.text) <= MaxLen
          /\ text' = r.text
          /\ undo_stack' = r.undo_stack
          /\ redo_stack' = r.redo_stack
          /\ next_transaction_id' = r.next_transaction_id
          /\ ret' = Ret("transaction", Some(r.id))
          /\ edited_text' = IF r.committed THEN r.text ELSE edited_text
          /\ phase' = IF r.committed THEN PhaseAfterCommit ELSE phase
  /\ UNCHANGED <<group_interval, now, panicked, initial_text, docvars, edvars>>
  /\ UNCHANGED synvars
  /\ UNCHANGED cursorvars

\* buffer.undo()
BufUndo ==
  /\ ~panicked
  /\ LET r == undo
     IN /\ text' = r.text
        /\ undo_stack' = r.undo_stack
        /\ redo_stack' = r.redo_stack
        /\ panicked' = ~r.ok
        /\ ret' = IF r.ok THEN Ret("undo", r.id) ELSE Ret("panic", None)
        /\ phase' = IF r.id = None THEN phase ELSE PhaseAfterUndo
  /\ UNCHANGED <<next_transaction_id, group_interval, now, initial_text,
                 edited_text, docvars, edvars>>
  /\ UNCHANGED synvars
  /\ UNCHANGED cursorvars

\* buffer.redo()
BufRedo ==
  /\ ~panicked
  /\ LET r == redo
     IN /\ text' = r.text
        /\ undo_stack' = r.undo_stack
        /\ redo_stack' = r.redo_stack
        /\ panicked' = ~r.ok
        /\ ret' = IF r.ok THEN Ret("redo", r.id) ELSE Ret("panic", None)
        /\ phase' = IF r.id = None THEN phase ELSE PhaseAfterRedo
  /\ UNCHANGED <<next_transaction_id, group_interval, now, initial_text,
                 edited_text, docvars, edvars>>
  /\ UNCHANGED synvars
  /\ UNCHANGED cursorvars

\* Time passes.
TickClock ==
  /\ ~panicked
  /\ now + Tick <= MaxTime
  /\ now' = now + Tick
  /\ ret' = Ret("tick", None)
  /\ UNCHANGED <<text, next_transaction_id, undo_stack, redo_stack,
                 group_interval, panicked, obsvars, docvars, edvars>>
  /\ UNCHANGED synvars
  /\ UNCHANGED cursorvars

\* The TextBuffer on its own, driven through its public calls.
InitBuffer == Init /\ ~highlighter

NextBuffer == BufTransaction \/ BufUndo \/ BufRedo \/ TickClock

SpecBuffer == InitBuffer /\ [][NextBuffer]_vars

\* The characters typed one at a time.
TypedChars == {<<"a">>, <<"e_acute">>}

\* buffer.transaction(Instant::now(), |buffer, tx| buffer.insert(tx, offset,
\* ch)): one character typed at an offset, as its own transaction.
BufType ==
  /\ ~panicked
  /\ next_transaction_id < MaxChain
  /\ \E offset \in 0..Len(text), ch \in TypedChars :
       LET r == transaction(<<Call("insert", offset, offset, ch)>>)
       IN /\ text' = r.text
          /\ undo_stack' = r.undo_stack
          /\ redo_stack' = r.redo_stack
          /\ next_transaction_id' = r.next_transaction_id
          /\ ret' = Ret("transaction", Some(r.id))
          /\ edited_text' = r.text
          /\ phase' = PhaseAfterCommit
  /\ UNCHANGED <<group_interval, now, panicked, initial_text, docvars, edvars>>
  /\ UNCHANGED synvars
  /\ UNCHANGED cursorvars

\* The TextBuffer under a run of keystrokes, undos and redos.
NextTyping == BufType \/ BufUndo \/ BufRedo \/ TickClock

SpecTyping == InitBuffer /\ [][NextTyping]_vars

\* ------------------------------------------------------------ editor steps
\* Texts typed, pasted or composed in the Editor-level specification; the
\* empty text is a deletion.
EditorTexts == {<< >>, <<"a">>}

HasLF(s) == \E i \in DOMAIN s : s[i] = "LF"

MAX_CACHE_SIZE == 200

\* Editor::ensure_cache_size
ensure_cache_size(layouts, vstart, vend) ==
  IF Cardinality(layouts) > MAX_CACHE_SIZE
    THEN {l \in layouts :
            l >= (IF vstart >= 50 THEN vstart - 50 ELSE 0) /\ l < vend + 50}
    ELSE layouts

\* Editor::replace_text_in_range (typing, backspace, delete, paste, cut): one
\* replace in one transaction, a new highlight job, the invalidation of the
\* layout cache and the recording of the transaction id.
ReplaceTextInRangeAt(a, b, s) ==
  /\ a <= b
  /\ LET r == transaction(<<Call("replace", a, b, s)>>)
         sched == schedule_recompute_highlights(tasks, highlighter,
                                                r.text, now)
         rec == record_transaction(r.id)
         start_line == char_to_line(text, a)
         end_line == char_to_line(text, b)
     IN /\ Len(r.text) <= MaxLen
        /\ text' = r.text
        /\ undo_stack' = r.undo_stack
        /\ redo_stack' = r.redo_stack
        /\ next_transaction_id' = r.next_transaction_id
        /\ tasks' = sched.tasks
        /\ pending_highlight_task' = sched.pending
        /\ line_layouts' =
             IF HasLF(s) \/ start_line # end_line
               THEN invalidate_lines_from(line_layouts, start_line)
               ELSE invalidate_line(line_layouts, start_line)
        /\ editor_undo_stack' = rec.undo
        /\ editor_redo_stack' = rec.redo
        /\ ret' = Ret("replace_text_in_range", Some(r.id))

ReplaceTextInRange ==
  /\ ~panicked
  /\ next_transaction_id < MaxTx
  /\ \E a \in 0..Len(text), b \in 0..Len(text), s \in EditorTexts :
       ReplaceTextInRangeAt(a, b, s)
  /\ UNCHANGED <<group_interval, now, panicked, obsvars, highlighter,
                 highlights, highlights_version, last_highlights_version>>
  /\ UNCHANGED synvars
  /\ UNCHANGED cursorvars

\* actions::enter: inserts a line feed at the cursor in one transaction,
\* records the transaction id and invalidates the layouts from the line.
EnterAt(cursor) ==
  LET r == transaction(<<Call("insert", cursor, cursor, <<"LF">>)>>)
      rec == record_transaction(r.id)
  IN /\ Len(r.text) <= MaxLen
     /\ text' = r.text
     /\ undo_stack' = r.undo_stack
     /\ redo_stack' = r.redo_stack
     /\ next_transaction_id' = r.next_transaction_id
     /\ editor_undo_stack' = rec.undo
     /\ editor_redo_stack' = rec.redo
     /\ line_layouts' =
          invalidate_lines_from(line_layouts, char_to_line(text, cursor))
     /\ ret' = Ret("enter", Some(r.id))

Enter ==
  /\ ~panicked
  /\ next_transaction_id < MaxTx
  /\ \E cursor \in 0..Len(text) : EnterAt(cursor)
  /\ UNCHANGED <<group_interval, now, panicked, obsvars, docvars,
                 last_highlights_version>>
  /\ UNCHANGED synvars
  /\ UNCHANGED cursorvars

\* Editor::replace_and_mark_text_in_range (IME composition): Document::replace
\* and the invalidation of the layouts from the start line.
ReplaceAndMarkTextInRangeAt(a, b, s) ==
  /\ a <= b
  /\ LET r == transaction(<<Call("replace", a, b, s)>>)
     IN /\ Len(r.text) <= MaxLen
        /\ text' = r.text
        /\ undo_stack' = r.undo_stack
        /\ redo_stack' = r.redo_stack
        /\ next_transaction_id' = r.next_transaction_id
        /\ line_layouts' =
             invalidate_lines_from(line_layouts, char_to_line(text, a))
        /\ ret' = Ret("replace_and_mark_text_in_range", None)

ReplaceAndMarkTextInRange ==
  /\ ~panicked
  /\ next_transaction_id < MaxTx
  /\ \E a \in 0..Len(text), b \in 0..Len(text), s \in EditorTexts :
       ReplaceAndMarkTextInRangeAt(a, b, s)
  /\ UNCHANGED <<group_interval, now, panicked, obsvars, docvars,
                 editor_undo_stack, editor_redo_stack, last_highlights_version>>
  /\ UNCHANGED synvars
  /\ UNCHANGED cursorvars

\* actions::undo: pops the Editor's transaction, undoes the buffer's; when the
\* buffer undid one, schedules a highlight job, clears the layouts and moves
\* the Editor's transaction to its redo stack.
Undo ==
  /\ ~panicked
  /\ editor_undo_stack # << >>
  /\ LET r == undo
         sched == schedule_recompute_highlights(tasks, highlighter, r.text, now)
         id == editor_undo_stack[Len(editor_undo_stack)]
     IN /\ text' = r.text
        /\ undo_stack' = r.undo_stack
        /\ redo_stack' = r.redo_stack
        /\ panicked' = ~r.ok
        /\ ret' = IF r.ok THEN Ret("undo", r.id) ELSE Ret("panic", None)
        /\ IF r.id # None
             THEN /\ tasks' = sched.tasks
                  /\ pending_highlight_task' = sched.pending
                  /\ line_layouts' = {}
                  /\ editor_undo_stack' =
                       SubSeq(editor_undo_stack, 1, Len(editor_undo_stack) - 1)
                  /\ editor_redo_stack' = Append(editor_redo_stack, id)
             ELSE UNCHANGED <<tasks, pending_highlight_task, line_layouts,
                              editor_undo_stack, editor_redo_stack>>
  /\ UNCHANGED <<next_transaction_id, group_interval, now, obsvars,
                 highlighter, highlights, highlights_version,
                 last_highlights_version>>
  /\ UNCHANGED synvars
  /\ UNCHANGED cursorvars

\* actions::redo
Redo ==
  /\ ~panicked
  /\ editor_redo_stack # << >>
  /\ LET r == redo
         sched == schedule_recompute_highlights(tasks, highlighter, r.text, now)
         id == editor_redo_stack[Len(editor_redo_stack)]
     IN /\ text' = r.text
        /\ undo_stack' = r.undo_stack
        /\ redo_stack' = r.redo_stack
        /\ panicked' = ~r.ok
        /\ ret' = IF r.ok THEN Ret("redo", r.id) ELSE Ret("panic", None)
        /\ IF r.id # None
             THEN /\ tasks' = sched.tasks
                  /\ pending_highlight_task' = sched.pending
                  /\ line_layouts' = {}
                  /\ editor_redo_stack' =
                       SubSeq(editor_redo_stack, 1, Len(editor_redo_stack) - 1)
                  /\ editor_undo_stack' = Append(editor_undo_stack, id)
             ELSE UNCHANGED <<tasks, pending_highlight_task, line_layouts,
                              editor_undo_stack, editor_redo_stack>>
  /\ UNCHANGED <<next_transaction_id, group_interval, now, obsvars,
                 highlighter, highlights, highlights_version,
                 last_highlights_version>>
  /\ UNCHANGED synvars
  /\ UNCHANGED cursorvars

\* ------------------------------------------------------------ job steps
\* The debounce timer of a job fires: the background work starts.
TimerFires ==
  /\ ~panicked
  /\ \E i \in DOMAIN tasks :
       /\ tasks[i].stage = "timer"
       /\ now >= tasks[i].deadline
       /\ tasks' = [tasks EXCEPT ![i].stage = "computing"]
       /\ ret' = Ret("timer", Some(tasks[i].text))
  /\ UNCHANGED <<bufvars, obsvars, highlighter, highlights, highlights_version,
                 pending_highlight_task, edvars>>
  /\ UNCHANGED synvars
  /\ UNCHANGED cursorvars

cache_write_only(i) ==
  /\ highlights' = highlight_text(tasks[i].text)
  /\ highlights_version' = highlights_version

cache_write_version_first(i) ==
  /\ highlights' = highlights
  /\ highlights_version' = highlights_version + 1

\* The Ok arm: the cache is replaced and the version incremented, both in
\* the one poll of the job on the main thread.
cache_write(i) ==
  /\ highlights' = highlight_text(tasks[i].text)
  /\ highlights_version' = highlights_version + 1

\* The background work of a job returned Ok(highlights) and the job finished.
HighlightApplied ==
  /\ ~panicked
  /\ highlights_version < MaxVersion
  /\ \E i \in DOMAIN tasks :
       /\ tasks[i].stage = "computing"
       /\ cache_write(i)
       /\ tasks' = RemoveAt(tasks, i)
       /\ ret' = Ret("highlight_ok", Some(tasks[i].text))
  /\ UNCHANGED <<bufvars, obsvars, highlighter, pending_highlight_task, edvars>>
  /\ UNCHANGED synvars
  /\ UNCHANGED cursorvars

HighlightFailed_cache_kept ==
  /\ ~panicked
  /\ \E i \in DOMAIN tasks :
       /\ tasks[i].stage = "computing"
       /\ highlights' = highlights
       /\ tasks' = RemoveAt(tasks, i)
       /\ ret' = Ret("highlight_err", Some(tasks[i].text))
  /\ UNCHANGED <<bufvars, obsvars, highlighter, highlights_version,
                 pending_highlight_task, edvars>>
  /\ UNCHANGED synvars
  /\ UNCHANGED cursorvars

\* The background work of a job returned Err: the cache is cleared.
HighlightFailed ==
  /\ ~panicked
  /\ \E i \in DOMAIN tasks :
       /\ tasks[i].stage = "computing"
       /\ highlights' = << >>
       /\ tasks' = RemoveAt(tasks, i)
       /\ ret' = Ret("highlight_err", Some(tasks[i].text))
  /\ UNCHANGED <<bufvars, obsvars, highlighter, highlights_version,
                 pending_highlight_task, edvars>>
  /\ UNCHANGED synvars
  /\ UNCHANGED cursorvars

\* EditorElement::prepaint: a newer highlights_version clears the layout
\* cache; then the lines of the viewport that are not cached are shaped.
Prepaint ==
  /\ ~panicked
  /\ \E vstart \in 0..(len_lines(text) - 1), vend \in 1..len_lines(text) :
       /\ vstart < vend
       /\ LET kept == IF highlights_version > last_highlights_version
                        THEN {} ELSE line_layouts
              shaped == (vstart..(vend - 1)) \ kept
          IN line_layouts' =
               IF shaped # {} THEN ensure_cache_size(kept \cup shaped, vstart, vend)
               ELSE kept
  /\ last_highlights_version' =
       IF highlights_version > last_highlights_version
         THEN highlights_version ELSE last_highlights_version
  /\ ret' = Ret("prepaint", None)
  /\ UNCHANGED <<bufvars, obsvars, docvars, editor_undo_stack,
                 editor_redo_stack>>
  /\ UNCHANGED synvars
  /\ UNCHANGED cursorvars

Next ==
  \/ ReplaceTextInRange
  \/ Enter
  \/ ReplaceAndMarkTextInRange
  \/ Undo
  \/ Redo
  \/ TimerFires
  \/ HighlightApplied
  \/ HighlightFailed
  \/ Prepaint
  \/ TickClock

Spec == Init /\ [][Next]_vars

\* The same program when the tokenizer never fails.
NextTokenizerOk ==
  \/ ReplaceTextInRange
  \/ Enter
  \/ ReplaceAndMarkTextInRange
  \/ Undo
  \/ Redo
  \/ TimerFires
  \/ HighlightApplied
  \/ Prepaint
  \/ TickClock

SpecTokenizerOk == Init /\ [][NextTokenizerOk]_vars

\* ------------------------------------------------------------ line queries
\* The texts of at most n characters of a set.
Texts(chars, n) == UNION {[1..k -> chars] : k \in 0..n}

Min(a, b) == IF a <= b THEN a ELSE b

\* The characters of the texts the line queries are made on.
LineChars == {"a", "CR", "LF"}

\* Rope::line(line_idx): the characters of the line, its line feed included.
RopeLine(t, line_idx) ==
  LET r == line_range(t, line_idx)[1]
  IN slice_to_string(t, r.start, r.end)

ends_with(s, c) == s # << >> /\ s[Len(s)] = c

pop(s) == SubSeq(s, 1, Len(s) - 1)

\* TextBuffer::line_content.  contiguous: RopeSlice::as_str is Some, the
\* line lies in one chunk of the rope; then a line that ends with neither
\* "\n" nor "\r" is returned borrowed, and otherwise the owned copy has its
\* last "\n" popped and then a "\r" before it.
line_content(t, line_idx, contiguous) ==
  IF line_idx < len_lines(t)
    THEN LET line_slice == RopeLine(t, line_idx)
         IN IF /\ contiguous
               /\ ~ends_with(line_slice, "LF")
               /\ ~ends_with(line_slice, "CR")
              THEN Some(line_slice)
            ELSE IF ends_with(line_slice, "LF")
              THEN IF ends_with(pop(line_slice), "CR")
                     THEN Some(pop(pop(line_slice)))
                     ELSE Some(pop(line_slice))
            ELSE Some(line_slice)
    ELSE None

\* Rope::char_to_line panics when char_idx > len_chars.
RopeCharToLineOk(t, char_idx) == char_idx <= Len(t)

\* Rope::line_to_char panics when line_idx > len_lines; the index len_lines
\* gives the length of the text.
RopeLineToCharOk(t, line_idx) == line_idx <= len_lines(t)
RopeLineToChar(t, line_idx) ==
  IF line_idx = len_lines(t) THEN Len(t) ELSE line_to_char(t, line_idx)

\* Rope::slice panics when start > end or end > len_chars.
RopeSliceOk(t, a, b) == a <= b /\ b <= Len(t)

line_range_at_offset_content_only(t, offset) ==
  IF Len(t) = 0 THEN <<0, 0>>
  ELSE LET line_idx == char_to_line(t, Min(offset, Len(t)))
           r == line_range(t, line_idx)
       IN IF r # None
            THEN <<r[1].start,
                   IF line_idx + 1 < len_lines(t) THEN r[1].end - 1
                   ELSE r[1].end>>
            ELSE <<offset, offset>>

\* boundaries::line_range_at_offset
line_range_at_offset(t, offset) ==
  IF Len(t) = 0 THEN <<0, 0>>
  ELSE LET line_idx == char_to_line(t, Min(offset, Len(t)))
           r == line_range(t, line_idx)
       IN IF r # None THEN <<r[1].start, r[1].end>>
          ELSE <<offset, offset>>

\* Document::with_text(text) on one of the given texts, nothing edited yet.
InitText(texts) ==
  /\ text \in texts
  /\ next_transaction_id = 0
  /\ undo_stack = << >>
  /\ redo_stack = << >>
  /\ group_interval = DEFAULT_GROUP_INTERVAL_MS
  /\ now = 0
  /\ panicked = FALSE
  /\ ret = Ret("new", None)
  /\ initial_text = text
  /\ edited_text = text
  /\ phase = "edit"
  /\ highlighter = FALSE
  /\ highlights = << >>
  /\ highlights_version = 0
  /\ tasks = << >>
  /\ pending_highlight_task = None
  /\ editor_undo_stack = << >>
  /\ editor_redo_stack = << >>
  /\ last_highlights_version = 0
  /\ line_layouts = {}
  /\ source_text = << >>
  /\ total_lines = 0
  /\ tree = FALSE
  /\ highlight_cache = << >>
  /\ dirty_lines = {}
  /\ parsed_range = None
  /\ selected_range = [start |-> 0, end |-> 0]
  /\ selection_reversed = FALSE
  /\ blink_epoch = 1
  /\ blinking_paused = FALSE
  /\ visible = TRUE
  /\ enabled = TRUE
  /\ blink_timers = {[kind |-> "blink", epoch |-> 1]}

\* What a read-only call leaves alone.
queryvars == <<text, next_transaction_id, undo_stack, redo_stack,
               group_interval, now, obsvars, docvars, edvars, synvars,
               cursorvars>>

\* A read-only call returns val, or panics.
Returns(op, args, ok, val) ==
  /\ ~panicked
  /\ panicked' = ~ok
  /\ ret' = IF ok THEN Ret(op, <<args, val>>) ELSE Ret("panic", <<op, args>>)
  /\ UNCHANGED queryvars

\* buffer.line_range(line_idx)
QueryLineRange ==
  \E line_idx \in 0..(len_lines(text) + 1) :
    Returns("line_range", line_idx, TRUE, line_range(text, line_idx))

\* buffer.line_content(line_idx)
QueryLineContent ==
  \E line_idx \in 0..(len_lines(text) + 1), contiguous \in BOOLEAN :
    Returns("line_content", <<line_idx, contiguous>>, TRUE,
            line_content(text, line_idx, contiguous))

\* buffer.char_to_line(char_idx)
QueryCharToLine ==
  \E char_idx \in 0..(Len(text) + 1) :
    LET ok == RopeCharToLineOk(text, char_idx)
    IN Returns("char_to_line", char_idx, ok,
               IF ok THEN char_to_line(text, char_idx) ELSE 0)

\* buffer.line_to_char(line_idx)
QueryLineToChar ==
  \E line_idx \in 0..(len_lines(text) + 1) :
    LET ok == RopeLineToCharOk(text, line_idx)
    IN Returns("line_to_char", line_idx, ok,
               IF ok THEN RopeLineToChar(text, line_idx) ELSE 0)

\* buffer.slice_to_string(range)
QuerySliceToString ==
  \E a \in 0..(Len(text) + 1), b \in 0..(Len(text) + 1) :
    LET ok == RopeSliceOk(text, a, b)
    IN Returns("slice_to_string", <<a, b>>, ok,
               IF ok THEN slice_to_string(text, a, b) ELSE << >>)

\* line_range_at_offset(&buffer, offset)
QueryLineRangeAtOffset ==
  \E offset \in 0..(Len(text) + 1) :
    Returns("line_range_at_offset", offset, TRUE,
            line_range_at_offset(text, offset))

\* The line queries on every text of at most MaxLineText characters.
InitLines == InitText(Texts(LineChars, MaxLineText))

NextLines ==
  \/ QueryLineRange
  \/ QueryLineContent
  \/ QueryCharToLine
  \/ QueryLineToChar
  \/ QuerySliceToString
  \/ QueryLineRangeAtOffset

SpecLines == InitLines /\ [][NextLines]_vars

\* ------------------------------------------------------------ boundaries
\* The characters of the texts the boundary queries are made on: two
\* letters, one of them of two bytes, the space, the line feed and a
\* punctuation character.
WordChars == {"a", "e_acute", " ", "LF", ","}

saturating_sub(a, b) == IF a >= b THEN a - b ELSE 0

SetMax(S) == CHOOSE x \in S : \A y \in S : y <= x

SetMin(S) == CHOOSE x \in S : \A y \in S : x <= y

\* char::is_whitespace
is_whitespace(c) == c \in {" ", "LF", "CR"}

\* The characters that the word-break rules join with their like: letters.
\* A comma between letters is MidNum and breaks on both sides.
IsWordChar(c) == c \in {"a", "e_acute"}

\* The byte index in the string s of its i-th character (i from 1), as
\* str::char_indices and split_word_bound_indices give it.
ByteIdx(s, i) == ByteLen(SubSeq(s, 1, i - 1))

\* str::is_char_boundary
is_char_boundary(s, b) ==
  b = ByteLen(s) \/ \E i \in DOMAIN s : ByteIdx(s, i) = b

\* str::split_word_bound_indices: the segments of s with their byte index
\* idx, their end byte idx + segment.len(), and whether segment.trim() is
\* empty.  A run of letters is one segment and every other character is a
\* segment of its own; how whitespace groups is immaterial, the callers
\* skip the blank segments.
split_word_bound_indices(s) ==
  LET Starts(i) == i = 1 \/ ~(IsWordChar(s[i - 1]) /\ IsWordChar(s[i]))
      Last(i) == SetMax({j \in i..Len(s) :
                           \A k \in (i + 1)..j : ~Starts(k)})
  IN {[idx |-> ByteIdx(s, i),
       segment_end |-> ByteIdx(s, Last(i)) + Utf8Len(s[Last(i)]),
       blank |-> is_whitespace(s[i])] : i \in {k \in DOMAIN s : Starts(k)}}

WINDOW_BACK == 1000
WINDOW_AHEAD == 100
WINDOW_CLICK == 500

\* boundaries::previous_boundary
previous_boundary(t, offset) ==
  IF offset = 0 THEN 0 ELSE saturating_sub(offset, 1)

\* boundaries::next_boundary
next_boundary(t, offset) ==
  LET doc_len == Len(t)
  IN IF offset >= doc_len THEN doc_len ELSE Min(offset + 1, doc_len)

\* boundaries::previous_word_boundary: ok is FALSE when the call panics, in
\* Rope::slice or in the byte slicing slice[line_start..check_range_end].
\* relative_offset counts characters; the positions of char_indices and of
\* split_word_bound_indices count bytes, and the code compares the two.
previous_word_boundary(t, offset) ==
  IF offset = 0 THEN [ok |-> TRUE, val |-> 0]
  ELSE
    LET doc_len == Len(t)
        start == saturating_sub(offset, WINDOW_BACK)
        end == Min(offset + WINDOW_AHEAD, doc_len)
    IN IF ~RopeSliceOk(t, start, end) THEN [ok |-> FALSE, val |-> 0]
       ELSE
         LET slice == slice_to_string(t, start, end)
             relative_offset == offset - start
             newlines == {ByteIdx(slice, i) : i \in
                            {k \in DOMAIN slice :
                               /\ slice[k] = "LF"
                               /\ ByteIdx(slice, k) < relative_offset}}
             line_start == IF newlines = {} THEN 0 ELSE SetMax(newlines) + 1
             check_range_end == Min(relative_offset + 1, ByteLen(slice))
             non_space == {ByteIdx(slice, i) : i \in
                             {k \in DOMAIN slice :
                                /\ ByteIdx(slice, k) >= line_start
                                /\ ByteIdx(slice, k) < check_range_end
                                /\ ~is_whitespace(slice[k])}}
             should_stay_on_line ==
               /\ non_space # {}
               /\ SetMin(non_space) > line_start
               /\ relative_offset >= SetMin(non_space)
             segments == {g \in split_word_bound_indices(slice) : ~g.blank}
             on_line == {g.idx : g \in
                           {h \in segments : /\ h.idx >= line_start
                                             /\ h.idx < relative_offset}}
             last_segment_on_current_line ==
               IF on_line = {} THEN line_start ELSE SetMax(on_line)
             inside == {g \in segments : /\ g.idx < relative_offset
                                         /\ relative_offset <= g.segment_end}
             before == {g.idx : g \in
                          {h \in segments : h.idx < relative_offset}}
             last_segment_start ==
               IF before = {} THEN 0 ELSE SetMax(before)
         IN IF \/ line_start > check_range_end
               \/ ~is_char_boundary(slice, line_start)
               \/ ~is_char_boundary(slice, check_range_end)
              THEN [ok |-> FALSE, val |-> 0]
            ELSE IF inside # {}
              THEN [ok |-> TRUE,
                    val |-> start + SetMin({g.idx : g \in inside})]
            ELSE IF /\ should_stay_on_line
                    /\ last_segment_on_current_line >= line_start
              THEN [ok |-> TRUE, val |-> start + last_segment_on_current_line]
            ELSE [ok |-> TRUE, val |-> start + last_segment_start]

\* boundaries::word_range_at_offset
word_range_at_offset(t, offset) ==
  LET doc_len == Len(t)
  IN IF offset >= doc_len THEN <<doc_len, doc_len>>
     ELSE
       LET start == saturating_sub(offset, WINDOW_CLICK)
           end == Min(offset + WINDOW_CLICK, doc_len)
           slice == slice_to_string(t, start, end)
           relative_offset == offset - start
           containing ==
             {g \in split_word_bound_indices(slice) :
                /\ ~g.blank
                /\ g.idx <= relative_offset
                /\ relative_offset < g.segment_end}
       IN IF containing # {}
            THEN LET g == CHOOSE h \in containing :
                            \A k \in containing : h.idx <= k.idx
                 IN <<start + g.idx, start + g.segment_end>>
          ELSE <<offset, offset>>

\* previous_boundary(editor, offset, cx); the cursor offset that the editor
\* passes can be past the end of the text.
QueryPreviousBoundary ==
  \E offset \in 0..(Len(text) + 2) :
    Returns("previous_boundary", offset, TRUE, previous_boundary(text, offset))

\* next_boundary(editor, offset, cx)
QueryNextBoundary ==
  \E offset \in 0..(Len(text) + 2) :
    Returns("next_boundary", offset, TRUE, next_boundary(text, offset))

\* previous_word_boundary(editor, offset, cx)
QueryPreviousWordBoundary ==
  \E offset \in 0..(Len(text) + 1) :
    LET r == previous_word_boundary(text, offset)
    IN Returns("previous_word_boundary", offset, r.ok, r.val)

\* word_range_at_offset(editor, offset, cx)
QueryWordRangeAtOffset ==
  \E offset \in 0..(Len(text) + 1) :
    Returns("word_range_at_offset", offset, TRUE,
            word_range_at_offset(text, offset))

NEXT_WINDOW_BACK == 100
NEXT_WINDOW_AHEAD == 1000

\* boundaries::next_word_boundary: the end of the first non-blank segment
\* that the offset is before or inside, else the end of the window.
\* relative_offset counts characters; idx and segment_end count bytes.
next_word_boundary(t, offset) ==
  LET doc_len == Len(t)
  IN IF offset >= doc_len THEN doc_len
     ELSE
       LET start == saturating_sub(offset, NEXT_WINDOW_BACK)
           end == Min(offset + NEXT_WINDOW_AHEAD, doc_len)
           slice == slice_to_string(t, start, end)
           relative_offset == offset - start
           found == {g \in split_word_bound_indices(slice) :
                       /\ ~g.blank
                       /\ \/ relative_offset <= g.idx
                          \/ relative_offset < g.segment_end}
       IN IF found # {}
            THEN LET g == CHOOSE h \in found :
                            \A k \in found : h.idx <= k.idx
                 IN start + g.segment_end
          ELSE end

\* next_word_boundary(editor, offset, cx)
QueryNextWordBoundary ==
  \E offset \in 0..(Len(text) + 1) :
    Returns("next_word_boundary", offset, TRUE,
            next_word_boundary(text, offset))

\* The boundary queries on every text of at most MaxWordText characters.
InitWords == InitText(Texts(WordChars, MaxWordText))

NextWords ==
  \/ QueryPreviousBoundary
  \/ QueryNextBoundary
  \/ QueryPreviousWordBoundary
  \/ QueryWordRangeAtOffset

SpecWords == InitWords /\ [][NextWords]_vars

\* The two word-wise movements on the same texts.
NextWordMoves == QueryPreviousWordBoundary \/ QueryNextWordBoundary

SpecWordMoves == InitWords /\ [][NextWordMoves]_vars

\* ------------------------------------------------------------ syntax
\* The characters of the texts given to the incremental highlighter.
SyntaxChars == {"a", "e_acute", "LF"}

\* str::lines().count(): the pieces between line feeds, a final line feed
\* not opening a last empty line.
lines_count(s) ==
  CountLF(s) + (IF s # << >> /\ s[Len(s)] # "LF" THEN 1 ELSE 0)

\* &s[..b]: the characters before the byte index b, a char boundary.
str_prefix(s, b) == SubSeq(s, 1, Cardinality({i \in DOMAIN s : ByteIdx(s, i) < b}))

\* byte_offset_to_char_offset
byte_offset_to_char_offset(s, byte_offset) ==
  Cardinality({i \in DOMAIN s : ByteIdx(s, i) < byte_offset})

\* char_offset_to_byte_offset
char_offset_to_byte_offset(s, char_offset) ==
  IF char_offset < Len(s) THEN ByteIdx(s, char_offset + 1) ELSE ByteLen(s)

PARSE_BUFFER == 200

\* SyntaxHighlighter::parse_range: the tree and the parsed range after it.
parse_range(src, total, tr, parsed, line_start, line_end) ==
  IF src = << >> THEN [tree |-> tr, parsed_range |-> parsed]
  ELSE
    LET needs_parse ==
          IF parsed = None THEN TRUE
          ELSE line_start < parsed[1].start \/ line_end > parsed[1].end
        expanded_start == saturating_sub(line_start, PARSE_BUFFER)
        expanded_end == Min(line_end + PARSE_BUFFER, total)
        new_range ==
          IF parsed = None
            THEN [start |-> expanded_start, end |-> expanded_end]
            ELSE [start |-> Min(expanded_start, parsed[1].start),
                  end |-> IF expanded_end >= parsed[1].end THEN expanded_end
                          ELSE parsed[1].end]
    IN IF ~needs_parse THEN [tree |-> tr, parsed_range |-> parsed]
       ELSE [tree |-> TRUE, parsed_range |-> Some(new_range)]

\* The captures of the query on the tree of src, in document order, with
\* their byte ranges: one node for each maximal run of characters other
\* than the line feed.
captures(src) == Scan(src, 1, 0, -1, << >>)

\* The captures with their ranges in characters.
Highlight(src, c) ==
  HighlightSpan(byte_offset_to_char_offset(src, c.start),
                byte_offset_to_char_offset(src, c.end), c.token_type)

\* The byte indices at which highlights_for_range slices source_text for
\* the highlight h.
HighlightCuts(src, h) ==
  {Min(h.start, ByteLen(src)), Min(h.end, ByteLen(src))}

RECURSIVE CachePush(_, _, _)
\* The loop that adds each highlight kept to the cache entries of the lines
\* h_start_line..=h_end_line.
CachePush(cache, src, hs) ==
  IF hs = << >> THEN cache
  ELSE
    LET h == Head(hs)
        h_start_line ==
          saturating_sub(
            lines_count(str_prefix(src, Min(h.start, ByteLen(src)))), 1)
        h_end_line == lines_count(str_prefix(src, Min(h.end, ByteLen(src))))
        lines == h_start_line..h_end_line
        pushed == [l \in (DOMAIN cache) \cup lines |->
                     IF l \in lines
                       THEN Append(IF l \in DOMAIN cache THEN cache[l]
                                   ELSE << >>, h)
                       ELSE cache[l]]
    IN CachePush(pushed, src, Tail(hs))

RECURSIVE Concat(_, _, _)
\* The cached vectors of the lines from..=to, one after the other.
Concat(cache, from, to) ==
  IF from > to THEN << >>
  ELSE (IF from \in DOMAIN cache THEN cache[from] ELSE << >>)
         \o Concat(cache, from + 1, to)

\* SyntaxHighlighter::highlights_for_range(a..b).  ok is FALSE when a byte
\* slicing of source_text at a character offset panics.
highlights_for_range(src, total, tr, parsed, cache, a, b) ==
  LET cut_a == Min(a, ByteLen(src))
      cut_b == Min(b, ByteLen(src))
  IN IF ~is_char_boundary(src, cut_a) \/ ~is_char_boundary(src, cut_b)
       THEN [ok |-> FALSE, highlights |-> << >>, cache |-> cache,
             tree |-> tr, parsed_range |-> parsed]
     ELSE
       LET start_line == saturating_sub(lines_count(str_prefix(src, cut_a)), 1)
           end_line == lines_count(str_prefix(src, cut_b))
           p == parse_range(src, total, tr, parsed, start_line, end_line)
           needs_query == \E l \in start_line..end_line : l \notin DOMAIN cache
           start_byte == char_offset_to_byte_offset(src, a)
           end_byte == char_offset_to_byte_offset(src, b)
           in_range == SelectSeq(captures(src),
                         LAMBDA c : c.start < end_byte /\ c.end > start_byte)
           all == [i \in DOMAIN in_range |-> Highlight(src, in_range[i])]
           kept == SelectSeq(all, LAMBDA h : h.start < b /\ h.end > a)
           cuts_ok == \A i \in DOMAIN kept :
                        \A c \in HighlightCuts(src, kept[i]) :
                          is_char_boundary(src, c)
       IN IF ~p.tree
            THEN [ok |-> TRUE, highlights |-> << >>, cache |-> cache,
                  tree |-> p.tree, parsed_range |-> p.parsed_range]
          ELSE IF ~needs_query
            THEN [ok |-> TRUE,
                  highlights |-> Concat(cache, start_line, end_line),
                  cache |-> cache,
                  tree |-> p.tree, parsed_range |-> p.parsed_range]
          ELSE IF ~cuts_ok
            THEN [ok |-> FALSE, highlights |-> << >>, cache |-> cache,
                  tree |-> p.tree, parsed_range |-> p.parsed_range]
          ELSE [ok |-> TRUE, highlights |-> kept,
                cache |-> CachePush(cache, src, kept),
                tree |-> p.tree, parsed_range |-> p.parsed_range]

\* TextEdit
TextEdit(start_byte, old_end_byte, new_end_byte) ==
  [start_byte |-> start_byte, old_end_byte |-> old_end_byte,
   new_end_byte |-> new_end_byte]

\* The first line evicted by update: the lines of the new text before
\* start_byte, less one.
update_start_line(new_text, edit) ==
  saturating_sub(
    lines_count(str_prefix(new_text, Min(edit.start_byte, ByteLen(new_text)))),
    1)

\* SyntaxHighlighter::update, the cache: the entries of the lines
\* start_line..total_lines of the new text are removed.
update_cache(cache, new_text, edit) ==
  LET start_line == update_start_line(new_text, edit)
      total == lines_count(new_text)
      keep == {l \in DOMAIN cache : ~(start_line <= l /\ l < total)}
  IN [l \in keep |-> cache[l]]

\* What a call on the SyntaxHighlighter leaves alone.
nonsynvars == <<text, next_transaction_id, undo_stack, redo_stack,
                group_interval, now, obsvars, docvars, edvars, cursorvars>>

\* highlighter.parse(text)
SynParse ==
  /\ ~panicked
  /\ \E t \in Texts(SyntaxChars, MaxSynText) :
       /\ source_text' = t
       /\ total_lines' = lines_count(t)
       /\ ret' = Ret("parse", <<t, None>>)
  /\ tree' = FALSE
  /\ parsed_range' = None
  /\ highlight_cache' = << >>
  /\ dirty_lines' = {}
  /\ UNCHANGED <<panicked, nonsynvars>>

\* highlighter.highlights_for_range(a..b)
SynHighlightsForRange ==
  /\ ~panicked
  /\ \E a \in 0..(Len(source_text) + 1), b \in 0..(Len(source_text) + 1) :
       /\ a <= b
       /\ LET r == highlights_for_range(source_text, total_lines, tree,
                                        parsed_range, highlight_cache, a, b)
          IN /\ \A l \in DOMAIN r.cache : Len(r.cache[l]) <= MaxSpans
             /\ panicked' = ~r.ok
             /\ ret' = IF r.ok
                         THEN Ret("highlights_for_range", <<<<a, b>>, r.highlights>>)
                         ELSE Ret("panic", <<"highlights_for_range", <<a, b>>>>)
             /\ highlight_cache' = r.cache
             /\ tree' = r.tree
             /\ parsed_range' = r.parsed_range
  /\ UNCHANGED <<source_text, total_lines, dirty_lines, nonsynvars>>

\* highlighter.update(edit, new_text): the characters a..b of the source
\* are replaced by ins, and edit describes that replacement in bytes.
SynUpdate ==
  /\ ~panicked
  /\ \E a \in 0..Len(source_text), b \in 0..Len(source_text),
        ins \in Texts(SyntaxChars, 1) :
       /\ a <= b
       /\ a < b \/ ins # << >>
       /\ Len(source_text) - (b - a) + Len(ins) <= MaxSynText
       /\ LET before == SubSeq(source_text, 1, a)
              new_text == before \o ins
                            \o SubSeq(source_text, b + 1, Len(source_text))
              edit == TextEdit(ByteLen(before),
                               ByteLen(SubSeq(source_text, 1, b)),
                               ByteLen(before \o ins))
              start_line == update_start_line(new_text, edit)
          IN /\ source_text' = new_text
             /\ total_lines' = lines_count(new_text)
             /\ dirty_lines' = dirty_lines
                                 \cup (start_line..(lines_count(new_text) - 1))
             /\ highlight_cache' = update_cache(highlight_cache, new_text, edit)
             /\ ret' = Ret("update", <<edit, None>>)
  /\ tree' = TRUE
  /\ UNCHANGED <<parsed_range, panicked, nonsynvars>>

\* The incremental highlighter on its own, new and then driven through
\* parse, highlights_for_range and update.
InitSyntax == InitText({<< >>})

NextSyntax == SynParse \/ SynHighlightsForRange \/ SynUpdate

SpecSyntax == InitSyntax /\ [][NextSyntax]_vars

\* ------------------------------------------------------------ token types
\* A capture or highlight name, split at its dots: <<"function", "method">>
\* is "function.method", <<"">> the empty name.
CaptureBases ==
  {"keyword", "function", "type", "string", "number", "boolean", "comment",
   "operator", "variable", "property", "constant", "punctuation",
   "attribute", "lifetime", "embedded", "", "unknown", "label", "macro",
   "control"}

CaptureModifiers ==
  {"control", "method", "special", "builtin", "interface", "class",
   "escape", "regex", "doc", "parameter", "bracket", "delimiter", "macro",
   "unknown", ""}

CaptureNames ==
  {<<b>> : b \in CaptureBases}
    \cup {<<b, m>> : b \in CaptureBases, m \in CaptureModifiers}
    \cup {<<b, m, "x">> : b \in {"function", "unknown"},
                          m \in {"method", "unknown"}}

\* The arm of the match for a base and the modifier m, None or Some.
TokenTypeOfBase(base, m) ==
  CASE base = "keyword" ->
         IF m = Some("control") THEN Some("KeywordControl") ELSE Some("Keyword")
    [] base = "function" ->
         IF m = Some("method") THEN Some("FunctionMethod")
         ELSE IF m = Some("special") THEN Some("FunctionSpecial")
         ELSE Some("Function")
    [] base = "type" ->
         IF m = Some("builtin") THEN Some("TypeBuiltin")
         ELSE IF m = Some("interface") THEN Some("TypeInterface")
         ELSE IF m = Some("class") THEN Some("TypeClass")
         ELSE Some("Type")
    [] base = "string" ->
         IF m = Some("escape") THEN Some("StringEscape")
         ELSE IF m = Some("regex") THEN Some("StringRegex")
         ELSE Some("String")
    [] base = "number" -> Some("Number")
    [] base = "boolean" -> Some("Boolean")
    [] base = "comment" ->
         IF m = Some("doc") THEN Some("CommentDoc") ELSE Some("Comment")
    [] base = "operator" -> Some("Operator")
    [] base = "variable" ->
         IF m = Some("special") THEN Some("VariableSpecial")
         ELSE IF m = Some("parameter") THEN Some("VariableParameter")
         ELSE Some("Variable")
    [] base = "property" -> Some("Property")
    [] base = "constant" ->
         IF m = Some("builtin") THEN Some("ConstantBuiltin")
         ELSE Some("Constant")
    [] base = "punctuation" ->
         IF m = Some("bracket") THEN Some("PunctuationBracket")
         ELSE IF m = Some("delimiter") THEN Some("PunctuationDelimiter")
         ELSE IF m = Some("special") THEN Some("PunctuationSpecial")
         ELSE Some("Punctuation")
    [] base = "attribute" -> Some("Attribute")
    [] base = "lifetime" -> Some("Lifetime")
    [] base = "embedded" -> Some("Embedded")
    [] OTHER -> None

capture_name_to_token_type_default(name) ==
  LET t == TokenTypeOfBase(name[1], IF Len(name) >= 2 THEN Some(name[2]) ELSE None)
  IN IF t = None THEN Some("Variable") ELSE t

\* syntax::capture_name_to_token_type: parts[0] is the base, parts.get(1)
\* the modifier, further parts are not looked at.
capture_name_to_token_type(name) ==
  LET base == name[1]
      modifier == IF Len(name) >= 2 THEN Some(name[2]) ELSE None
  IN TokenTypeOfBase(base, modifier)

\* The arms 0..17 of map_highlight_index_to_token_type.
HighlightIndexTable ==
  <<"Keyword", "KeywordControl", "Function", "FunctionMethod",
    "FunctionSpecial", "Type", "TypeBuiltin", "String", "StringEscape",
    "Number", "Comment", "Variable", "Property", "Constant", "Operator",
    "PunctuationBracket", "Attribute", "Lifetime">>

\* highlighter::map_highlight_index_to_token_type
map_highlight_index_to_token_type(idx) ==
  IF idx < Len(HighlightIndexTable) THEN HighlightIndexTable[idx + 1]
  ELSE "Variable"

\* highlight_names of RUST_CONFIG
RUST_CONFIG ==
  << <<"keyword">>, <<"keyword", "control">>, <<"function">>,
     <<"function", "method">>, <<"function", "macro">>, <<"type">>,
     <<"type", "builtin">>, <<"string">>, <<"string", "escape">>,
     <<"number">>, <<"comment">>, <<"variable">>, <<"property">>,
     <<"constant">>, <<"operator">>, <<"punctuation", "bracket">>,
     <<"attribute">>, <<"lifetime">> >>

\* highlight_names of TYPESCRIPT_CONFIG
TYPESCRIPT_CONFIG ==
  << <<"keyword">>, <<"keyword", "control">>, <<"function">>,
     <<"function", "method">>, <<"type">>, <<"type", "builtin">>,
     <<"string">>, <<"string", "escape">>, <<"number">>, <<"comment">>,
     <<"variable">>, <<"property">>, <<"constant">>, <<"operator">>,
     <<"punctuation", "bracket">> >>

LanguageConfigs == [rust |-> RUST_CONFIG, typescript |-> TYPESCRIPT_CONFIG]

\* The highest index asked of the index mapping, past both name lists.
MaxIndex == 20

\* capture_name_to_token_type(name)
QueryCaptureName ==
  \E name \in CaptureNames :
    Returns("capture_name_to_token_type", name, TRUE,
            capture_name_to_token_type(name))

\* The highlight event of the index idx under a language configuration,
\* mapped by map_highlight_index_to_token_type(idx).
QueryHighlightIndex ==
  \E language \in DOMAIN LanguageConfigs, idx \in 0..MaxIndex :
    Returns("map_highlight_index_to_token_type", <<language, idx>>, TRUE,
            map_highlight_index_to_token_type(idx))

InitTokens == InitText({<< >>})

NextTokens == QueryCaptureName \/ QueryHighlightIndex

SpecTokens == InitTokens /\ [][NextTokens]_vars

\* ------------------------------------------------------------------ cursor
\* The largest offset a cursor movement is given.
MaxOffset == 2
\* The blink epochs followed.
MaxEpoch == 4

\* Editor::cursor_offset
cursor_offset(range, reversed) ==
  IF reversed THEN range.start ELSE range.end

select_to_no_flip(range, reversed, offset) ==
  LET moved == IF reversed THEN [range EXCEPT !.start = offset]
                           ELSE [range EXCEPT !.end = offset]
  IN IF moved.end < moved.start
       THEN [range |-> [start |-> moved.end, end |-> moved.start],
             reversed |-> reversed]
       ELSE [range |-> moved, reversed |-> reversed]

\* Editor::select_to: the cursor's end of the range moves to offset; a range
\* that came out backwards is swapped and the direction flag flipped.
select_to(range, reversed, offset) ==
  LET moved == IF reversed THEN [range EXCEPT !.start = offset]
                           ELSE [range EXCEPT !.end = offset]
  IN IF moved.end < moved.start
       THEN [range |-> [start |-> moved.end, end |-> moved.start],
             reversed |-> ~reversed]
       ELSE [range |-> moved, reversed |-> reversed]

\* The CursorBlink entity as one value.
Blink ==
  [blink_epoch |-> blink_epoch, blinking_paused |-> blinking_paused,
   visible |-> visible, enabled |-> enabled, timers |-> blink_timers]

\* A spawned task sleeping for CURSOR_BLINK_INTERVAL before its callback.
BlinkTimer(kind, epoch) == [kind |-> kind, epoch |-> epoch]

\* CursorBlink::blink_cursors
blink_cursors(b, epoch) ==
  IF epoch = b.blink_epoch /\ b.enabled /\ ~b.blinking_paused
    THEN [b EXCEPT !.visible = ~b.visible,
                   !.blink_epoch = b.blink_epoch + 1,
                   !.timers = b.timers \cup
                                {BlinkTimer("blink", b.blink_epoch + 1)}]
    ELSE b

\* CursorBlink::show_cursor
show_cursor(b) == [b EXCEPT !.visible = TRUE]

\* CursorBlink::pause_blinking
pause_blinking(b) ==
  [show_cursor(b) EXCEPT !.blinking_paused = TRUE,
                         !.blink_epoch = b.blink_epoch + 1,
                         !.timers = b.timers \cup
                                      {BlinkTimer("resume", b.blink_epoch + 1)}]

\* CursorBlink::resume_cursor_blinking
resume_cursor_blinking(b, epoch) ==
  IF epoch = b.blink_epoch
    THEN blink_cursors([b EXCEPT !.blinking_paused = FALSE], epoch)
    ELSE b

\* CursorBlink::enable
enable(b) ==
  IF b.enabled
    THEN b
    ELSE blink_cursors([b EXCEPT !.enabled = TRUE, !.visible = FALSE],
                       b.blink_epoch)

\* CursorBlink::disable
disable(b) == show_cursor([b EXCEPT !.enabled = FALSE])

BlinkBecomes(b) ==
  /\ blink_epoch' = b.blink_epoch
  /\ blinking_paused' = b.blinking_paused
  /\ visible' = b.visible
  /\ enabled' = b.enabled
  /\ blink_timers' = b.timers

cursorfixed == <<text, next_transaction_id, undo_stack, redo_stack,
                 group_interval, now, panicked, obsvars, docvars, edvars,
                 synvars>>

\* editor.move_to(offset): the selection collapses to offset and the blink
\* pauses.
MoveTo ==
  /\ blink_epoch < MaxEpoch
  /\ \E offset \in 0..MaxOffset :
       /\ selected_range' = [start |-> offset, end |-> offset]
       /\ ret' = Ret("move_to", offset)
  /\ BlinkBecomes(pause_blinking(Blink))
  /\ UNCHANGED selection_reversed
  /\ UNCHANGED cursorfixed

\* editor.select_to(offset)
SelectTo ==
  /\ \E offset \in 0..MaxOffset :
       LET r == select_to(selected_range, selection_reversed, offset)
       IN /\ selected_range' = r.range
          /\ selection_reversed' = r.reversed
          /\ ret' = Ret("select_to", offset)
  /\ UNCHANGED <<blink_epoch, blinking_paused, visible, enabled, blink_timers>>
  /\ UNCHANGED cursorfixed

\* A timer spawned by pause_blinking or blink_cursors elapses and its callback
\* runs with the epoch it was spawned with.  Every timer sleeps for the same
\* interval; the order in which elapsed timers run is left open.
BlinkTimerFires ==
  /\ blink_epoch < MaxEpoch
  /\ \E tm \in blink_timers :
       LET b == [Blink EXCEPT !.timers = blink_timers \ {tm}]
       IN /\ BlinkBecomes(IF tm.kind = "resume"
                            THEN resume_cursor_blinking(b, tm.epoch)
                            ELSE blink_cursors(b, tm.epoch))
          /\ ret' = Ret("blink_timer", tm)
  /\ UNCHANGED <<selected_range, selection_reversed>>
  /\ UNCHANGED cursorfixed

\* cursor_blink.enable()
Enable ==
  /\ blink_epoch < MaxEpoch
  /\ BlinkBecomes(enable(Blink))
  /\ ret' = Ret("enable", None)
  /\ UNCHANGED <<selected_range, selection_reversed>>
  /\ UNCHANGED cursorfixed

\* cursor_blink.disable()
Disable ==
  /\ BlinkBecomes(disable(Blink))
  /\ ret' = Ret("disable", None)
  /\ UNCHANGED <<selected_range, selection_reversed>>
  /\ UNCHANGED cursorfixed

\* Editor::new with CursorBlink::new: the selection 0..0 forwards, the blink
\* enabled with its first timer running.
InitCursor == InitText({<< >>})

NextCursor == MoveTo \/ SelectTo \/ BlinkTimerFires \/ Enable \/ Disable

SpecCursor == InitCursor /\ [][NextCursor]_vars

\* ------------------------------------------------------------ layout cache
\* Viewport edges are multiples of ViewStep lines, up to MaxView steps.
ViewStep == 60
MaxView == 5

ViewportEdges == {k * ViewStep : k \in 0..MaxView}

\* The end of EditorElement::prepaint on a document longer than every
\* viewport: the visible lines not yet cached are shaped and inserted, then
\* ensure_cache_size(viewport) runs.  Only the line indices matter.
ShapeViewport ==
  /\ \E vstart, vend \in ViewportEdges :
       /\ vstart < vend
       /\ LET shaped == (vstart..(vend - 1)) \ line_layouts
          IN IF shaped # {}
               THEN /\ line_layouts' =
                         ensure_cache_size(line_layouts \cup shaped, vstart, vend)
                    /\ ret' = Ret("ensure_cache_size", <<vstart, vend>>)
               ELSE /\ line_layouts' = line_layouts
                    /\ ret' = Ret("prepaint", None)
  /\ UNCHANGED <<bufvars, obsvars, docvars, editor_undo_stack,
                 editor_redo_stack, last_highlights_version>>
  /\ UNCHANGED synvars
  /\ UNCHANGED cursorvars

InitCache == InitText({<< >>})

NextCache == ShapeViewport

SpecCache == InitCache /\ [][NextCache]_vars

\* ================================================================ claims
\* A step that commits a transaction: only commit_transaction advances the id.
CommitStep == next_transaction_id' = next_transaction_id + 1

Top(stack) == stack[Len(stack)]

\* C1: after any sequence of committed edits, undo() repeated until it
\* returns None leaves the text equal to the initial text, and redo()
\* repeated afterwards until it returns None leaves the text equal to the
\* text after the last edit; no call panics on the way.
C1_UndoRedoRoundTrip ==
  /\ phase \in {"undo", "redo"} => ~panicked
  /\ (phase = "undo" /\ undo_stack = << >>) => text = initial_text
  /\ (phase = "redo" /\ redo_stack = << >>) => text = edited_text

C3_CommitClearsRedo ==
  [][CommitStep => (redo_stack' = << >> /\ redo'.id = None)]_vars

\* A commit made after an undo: transaction 0 was undone, then transaction 1
\* was committed and the redo stack is empty.
C3_Witness ==
  /\ ret = Ret("transaction", Some(1))
  /\ next_transaction_id = 2
  /\ Len(undo_stack) = 1
  /\ undo_stack[1].id = 1
  /\ redo_stack = << >>

\* C4: a highlight result is written to the span cache only if the text it
\* was computed from is the buffer text at the moment of the write.
C4_NoStaleWrite ==
  [][ret'.op = "highlight_ok" => ret'.val = Some(text')]_vars

\* C5: two highlight jobs of the Document are never both pending: the
\* executor runs at most one, and it is the one whose handle the Document
\* holds.
C5_AtMostOneJob ==
  /\ Len(tasks) <= 1
  /\ tasks # << >> => (pending_highlight_task # None /\ tasks[1].held)

\* An edit made before the debounce of the first job elapsed: the first job
\* was cancelled and the only job is the one of the edited text.
C5_Witness ==
  /\ highlighter
  /\ now = 0
  /\ ret.op = "replace_text_in_range"
  /\ text # initial_text
  /\ Len(tasks) = 1
  /\ tasks[1].text = text

\* C6: every step that changes the text of a Document with a highlighter
\* leaves exactly one job, a new one on the new text whose debounce timer
\* has DEBOUNCE_MS to run, and a job is computing only once its debounce
\* deadline has passed.
C6_EditReschedules ==
  [][/\ (highlighter /\ text' # text) =>
          tasks' = <<Task("timer", text', now' + DEBOUNCE_MS, TRUE)>>
     /\ \A i \in DOMAIN tasks' :
          tasks'[i].stage = "computing" => tasks'[i].deadline <= now']_vars

\* C7: with a tokenizer that succeeds, once no job is left to run the span
\* cache of a Document with a highlighter is the highlighting of its text.
C7_SettledCacheIsCurrent ==
  (highlighter /\ tasks = << >>) => highlights = highlight_text(text)

\* C8: every change of the contents of the span cache comes with an
\* increase of highlights_version.
C8_CacheChangeBumpsVersion ==
  [][highlights' # highlights => highlights_version' > highlights_version]_vars

\* C9: highlights_version never decreases, and a job that succeeds
\* increases it by exactly one.
C9_VersionMonotonic ==
  [][/\ highlights_version' >= highlights_version
     /\ ret'.op = "highlight_ok" =>
          highlights_version' = highlights_version + 1]_vars

\* Two jobs succeeded one after the other.
C9_Witness ==
  /\ ret.op = "highlight_ok"
  /\ highlights_version = 2

\* C10: the cache and its version change in the same step: the version
\* changes only in the step in which a successful job installs its complete
\* span list, and that step changes the version.
C10_AtomicReplace ==
  [][/\ highlights_version' # highlights_version =>
          /\ ret'.op = "highlight_ok"
          /\ highlights' = highlight_text(ret'.val[1])
     /\ ret'.op = "highlight_ok" =>
          /\ highlights' = highlight_text(ret'.val[1])
          /\ highlights_version' # highlights_version]_vars

\* A job just replaced a non-empty cache by the spans of another text, and
\* the reader has not looked yet.
C10_Witness ==
  /\ ret.op = "highlight_ok"
  /\ highlights # << >>
  /\ highlights = highlight_text(text)
  /\ text # initial_text
  /\ highlights_version = 2
  /\ last_highlights_version < highlights_version

\* C11: when a highlight job fails, the span cache is emptied and
\* get_highlights_for_line returns None for every line (and for every line
\* index past the last), the buffer text, its two stacks and its id counter
\* are as before and nothing panicked; and an edit through
\* replace_text_in_range made right after the failure schedules its job as
\* it always does.
C11_FailureClearsCache ==
  [][/\ ret'.op = "highlight_err" =>
          /\ highlights' = << >>
          /\ \A l \in 0..len_lines(text') :
               get_highlights_for_line(highlights', text', l) = None
          /\ text' = text
          /\ undo_stack' = undo_stack
          /\ redo_stack' = redo_stack
          /\ next_transaction_id' = next_transaction_id
          /\ ~panicked'
     /\ (ret.op = "highlight_err" /\ ret'.op = "replace_text_in_range"
         /\ highlighter) =>
          tasks' = <<Task("timer", text', now + DEBOUNCE_MS, TRUE)>>]_vars

\* A job failed after an earlier one had filled the cache with the span of a
\* text that is still on its line.
C11_Witness ==
  /\ ret.op = "highlight_err"
  /\ highlights_version >= 1
  /\ highlights = << >>
  /\ highlight_text(text) # << >>
  /\ undo_stack # << >>

\* C12: when undo() returns Some(id), a redo() called next returns Some of
\* the same id without a panic and leaves the text, the undo stack and the
\* redo stack as they were before the undo.
C12_UndoThenRedo ==
  [][(ret'.op = "undo" /\ ret'.val # None) =>
       /\ redo'.ok
       /\ redo'.id = ret'.val
       /\ redo'.text = text
       /\ redo'.undo_stack = undo_stack
       /\ redo'.redo_stack = redo_stack]_vars

\* C13: a commit made while the undo stack is non-empty, the window is
\* non-zero and less than one window has passed since the timestamp of the
\* last transaction returns the id of that transaction, stamps it with the
\* time of the commit and adds no undo step.
C13_MergeKeepsIdBumpsStamp ==
  [][(/\ CommitStep
      /\ undo_stack # << >>
      /\ group_interval # 0
      /\ now - Top(undo_stack).timestamp < group_interval) =>
       /\ ret'.val = Some(Top(undo_stack).id)
       /\ Top(undo_stack').id = Top(undo_stack).id
       /\ Top(undo_stack').timestamp = now
       /\ Len(undo_stack') = Len(undo_stack)]_vars

\* Three keystrokes at 0, 150 and 300 ms under a window of 300 ms: the chain
\* lasts a whole window and is still one undo step, that of the first id.
C13_Witness ==
  /\ group_interval = DEFAULT_GROUP_INTERVAL_MS
  /\ phase = "edit"
  /\ ret = Ret("transaction", Some(0))
  /\ next_transaction_id = 3
  /\ now = 2 * Tick
  /\ Len(undo_stack) = 1
  /\ undo_stack[1].timestamp = now
  /\ Len(undo_stack[1].operations) = 3

\* C14: in every reachable state, transaction(now, f) with a closure f that
\* makes no call on the buffer commits nothing: the text, the undo stack,
\* the redo stack and the id counter are as before and the id returned is
\* that counter; and the step of a transaction() call that returned the
\* counter it left changed none of them.
C14_EmptyClosureNoOp ==
  [][/\ LET r == transaction(<< >>)'
        IN /\ ~r.committed
           /\ r.text = text'
           /\ r.undo_stack = undo_stack'
           /\ r.redo_stack = redo_stack'
           /\ r.next_transaction_id = next_transaction_id'
           /\ r.id = next_transaction_id'
     /\ (ret'.op = "transaction" /\ ret'.val = Some(next_transaction_id')) =>
          /\ text' = text
          /\ undo_stack' = undo_stack
          /\ redo_stack' = redo_stack
          /\ next_transaction_id' = next_transaction_id]_vars

\* A closure without calls was run right after the undo of the one
\* transaction: the redo stack still holds it and the id returned is the
\* one still to come.
C14_Witness ==
  /\ ret = Ret("transaction", Some(next_transaction_id))
  /\ next_transaction_id = 1
  /\ undo_stack = << >>
  /\ redo_stack # << >>

\* C15: in every reachable state a transaction whose closure calls
\* replace(a..a, "") at any offset a leaves the text, the undo stack (its
\* length, the operations and the timestamp of its last transaction) and
\* the redo stack as they were.
C15_ZeroLengthEditNoUndoStep ==
  \A a \in 0..Len(text) :
    LET r == transaction(<<Call("replace", a, a, << >>)>>)
    IN /\ r.text = text
       /\ r.undo_stack = undo_stack
       /\ r.redo_stack = redo_stack

\* C16: undo() called on an empty undo stack and redo() called on an empty
\* redo stack return None and leave the text, both stacks, the id counter
\* and the panic flag as they were.
C16_EmptyStackNone ==
  [][/\ (ret'.op = "undo" /\ undo_stack = << >>) =>
          /\ ret'.val = None
          /\ UNCHANGED <<text, undo_stack, redo_stack, next_transaction_id,
                         panicked>>
     /\ (ret'.op = "redo" /\ redo_stack = << >>) =>
          /\ ret'.val = None
          /\ UNCHANGED <<text, undo_stack, redo_stack, next_transaction_id,
                         panicked>>]_vars

\* undo() was called once more after it had undone the only transaction.
C16_Witness ==
  /\ ret = Ret("undo", None)
  /\ undo_stack = << >>
  /\ redo_stack # << >>
  /\ next_transaction_id = 1

\* The operations one replace(a..b, s) records: the removal of a..b, then
\* the insertion at a.
IsReplacePair(ops) ==
  /\ Len(ops) = 2
  /\ ops[1].after = << >>
  /\ ops[2].before = << >>
  /\ ops[2].start = ops[1].start
  /\ ops[2].end = ops[2].start

\* C17: the undo() of a transaction that is one replace(a..b, s) does not
\* panic and leaves the text with s taken out at a and the removed text
\* back in its place, and the redo() of such a transaction leaves the text
\* with a..b removed and s in its place: either step applies both halves.
C17_ReplaceIsOneUndoStep ==
  [][/\ (/\ undo_stack # << >>
         /\ ret'.op \in {"undo", "panic"}
         /\ redo_stack' = Append(redo_stack, Top(undo_stack))
         /\ IsReplacePair(Top(undo_stack).operations)) =>
          LET rm == Top(undo_stack).operations[1]
              ins == Top(undo_stack).operations[2]
          IN /\ ~panicked'
             /\ text' = RopeInsert(RopeRemove(text, ins.start,
                                              ins.start + Len(ins.after)),
                                   rm.start, rm.before)
     /\ (/\ redo_stack # << >>
         /\ ret'.op \in {"redo", "panic"}
         /\ undo_stack' = Append(undo_stack, Top(redo_stack))
         /\ IsReplacePair(Top(redo_stack).operations)) =>
          LET rm == Top(redo_stack).operations[1]
              ins == Top(redo_stack).operations[2]
          IN /\ ~panicked'
             /\ text' = RopeInsert(RopeRemove(text, rm.start, rm.end),
                                   ins.start, ins.after)]_vars

\* The operations of the transactions of a stack, one after the other.
RECURSIVE OperationsOf(_)
OperationsOf(stack) ==
  IF stack = << >> THEN << >>
  ELSE Head(stack).operations \o OperationsOf(Tail(stack))

\* C18: for every operation op recorded in a transaction of the undo or the
\* redo stack, the inverse TextOperation::undo builds has the range
\* op.start .. op.start + (number of characters of op.after), before =
\* op.after and after = op.before.
C18_InvertCountsChars ==
  LET ops == OperationsOf(undo_stack \o redo_stack)
  IN \A i \in DOMAIN ops :
       TextOperation_undo(ops[i]) =
         TextOperation(ops[i].start, ops[i].start + Len(ops[i].after),
                       ops[i].after, ops[i].before)

C20_LineRangesPartition ==
  LET n == len_lines(text)
      range(i) == line_range(text, i)[1]
  IN /\ \A i \in 0..(n - 1) :
          /\ line_range(text, i) # None
          /\ range(i).start <= range(i).end
          /\ i + 1 < n => range(i).end = range(i + 1).start
     /\ range(0).start = 0
     /\ range(n - 1).end = Len(text)
     /\ line_range(text, n) = None

\* A text of three lines, the first two of them empty.
C20_Witness ==
  /\ len_lines(text) = 3
  /\ line_range(text, 1) = Some([start |-> 1, end |-> 2])
  /\ ret.op = "enter"

\* C21: in every state reached by edits, undos and redos, the empty text
\* included, the buffer has at least one line and line_range(0) is Some.
C21_AtLeastOneLine ==
  /\ len_lines(text) >= 1
  /\ line_range(text, 0) # None

\* The one character of the text was deleted: the text is empty after an
\* edit, and its line 0 is the empty range at 0.
C21_Witness ==
  /\ text = << >>
  /\ initial_text # << >>
  /\ undo_stack # << >>
  /\ ret.op = "replace_text_in_range"
  /\ line_range(text, 0) = Some([start |-> 0, end |-> 0])

\* C22: the line and character queries answer an out-of-range index with
\* "not found" (line_range and line_content return None) or a clamped
\* result, and none of them panics.
C22_OutOfRangeNeverPanics ==
  /\ ~panicked
  /\ ret.op \in {"line_range", "line_content"} =>
       LET line_idx == IF ret.op = "line_range" THEN ret.val[1]
                       ELSE ret.val[1][1]
       IN line_idx >= len_lines(text) => ret.val[2] = None

\* C23: for a valid line index, line_content is the text of the line with
\* its trailing line feed removed, and the carriage return before that line
\* feed removed too; the result does not end with a line terminator; the
\* borrowed path and the allocating path return the same string.
C23_LineContentStripsTerminator ==
  (ret.op = "line_content" /\ ret.val[1][1] < len_lines(text)) =>
    LET line_idx == ret.val[1][1]
        contiguous == ret.val[1][2]
        r == line_range(text, line_idx)[1]
        s == SubSeq(text, r.start + 1, r.end)
        n == Len(s)
        stripped == IF n >= 1 /\ s[n] = "LF"
                      THEN IF n >= 2 /\ s[n - 1] = "CR"
                             THEN SubSeq(s, 1, n - 2)
                             ELSE SubSeq(s, 1, n - 1)
                      ELSE s
        content == ret.val[2][1]
    IN /\ ret.val[2] = Some(stripped)
       /\ content = << >> \/ content[Len(content)] \notin {"LF", "CR"}
       /\ line_content(text, line_idx, ~contiguous) = ret.val[2]

\* C29: line_range_at_offset returns the range of the line that contains
\* the offset (an offset beyond the length counts as the length): the range
\* starts at the start of the text or right after a line feed, has no line
\* feed before its last character, ends with the line's line feed unless
\* the line is the last one, and is line_range of that line; on the empty
\* document it is (0, 0).
C29_LineRangeAtOffsetIsLineRange ==
  ret.op = "line_range_at_offset" =>
    LET offset == ret.val[1]
        start == ret.val[2][1]
        end == ret.val[2][2]
        len == Len(text)
        o == IF offset > len THEN len ELSE offset
    IN IF len = 0 THEN start = 0 /\ end = 0
       ELSE /\ 0 <= start /\ start <= o /\ o <= end /\ end <= len
            /\ start = 0 \/ text[start] = "LF"
            /\ \A i \in (start + 1)..(end - 1) : text[i] # "LF"
            /\ end = len \/ (end >= 1 /\ text[end] = "LF")
            /\ o = end => (end = len /\ (start = end \/ text[end] # "LF"))
            /\ line_range(text, char_to_line(text, o))
                 = Some([start |-> start, end |-> end])

\* The offset is on the first of two lines, and the range returned ends
\* after the line feed.
C29_Witness ==
  /\ ret.op = "line_range_at_offset"
  /\ text = <<"a", "LF", "a">>
  /\ ret.val = <<1, <<0, 2>>>>

\* C24: previous_boundary and next_boundary of any offset lie in [0, len]
\* and are one character away from the offset, except previous_boundary(0)
\* = 0 and next_boundary of an offset at or past the end = len; and
\* next_boundary(previous_boundary(x)) = x for 0 < x <= len.
C24_CharBoundariesInRange ==
  LET len == Len(text)
      x == ret.val[1]
      y == ret.val[2]
  IN /\ ret.op = "previous_boundary" =>
          /\ 0 <= y /\ y <= len
          /\ IF x = 0 THEN y = 0 ELSE y = x - 1 \/ (x > len /\ y = len)
          /\ (0 < x /\ x <= len) => next_boundary(text, y) = x
     /\ ret.op = "next_boundary" =>
          /\ 0 <= y /\ y <= len
          /\ IF x >= len THEN y = len ELSE y = x + 1

\* The character offsets at which a token of t starts: a run of letters or
\* a punctuation character.
TokenStarts(t) ==
  {i - 1 : i \in {k \in DOMAIN t :
                    /\ ~is_whitespace(t[k])
                    /\ k = 1 \/ ~(IsWordChar(t[k - 1]) /\ IsWordChar(t[k]))}}

\* The offset at which the line of the character offset o starts, the line
\* feeds before o deciding.
LineStartBefore(t, o) ==
  LET lfs == {i \in DOMAIN t : t[i] = "LF" /\ i - 1 < o}
  IN IF lfs = {} THEN 0 ELSE SetMax(lfs)

\* o is the start of the first token of a line that starts with whitespace.
AtFirstTokenOfIndentedLine(t, o) ==
  /\ o < Len(t)
  /\ ~is_whitespace(t[o + 1])
  /\ LineStartBefore(t, o) < o
  /\ \A i \in (LineStartBefore(t, o) + 1)..o : is_whitespace(t[i])

\* C25: previous_word_boundary(offset) returns the start of the nearest
\* token that begins strictly before the offset, the whitespace between
\* skipped, and the window start 0 when there is no such token.  The step
\* from the first token of an indented line, which the indentation rule
\* sends to the indentation start, is left to C26.
C25_PreviousWordBoundaryNearestToken ==
  /\ ~panicked
  /\ (/\ ret.op = "previous_word_boundary"
      /\ ~AtFirstTokenOfIndentedLine(text, ret.val[1])) =>
       LET before == {s \in TokenStarts(text) : s < ret.val[1]}
       IN ret.val[2] = IF before = {} THEN 0 ELSE SetMax(before)

\* The offset after the token of t that starts at the offset s.
TokenEnd(t, s) ==
  IF IsWordChar(t[s + 1])
    THEN SetMax({e \in (s + 1)..Len(t) :
                   \A i \in (s + 1)..e : IsWordChar(t[i])})
    ELSE s + 1

\* The line of t that starts at l is indented, its first token at f.
Indented(t, l, f) ==
  /\ l = 0 \/ t[l] = "LF"
  /\ l < f /\ f < Len(t)
  /\ \A i \in (l + 1)..f : t[i] = " "
  /\ ~is_whitespace(t[f + 1])

\* previous_word_boundary was called with the offset o.
PwbCalled(o) ==
  \/ ret.op = "previous_word_boundary" /\ ret.val[1] = o
  \/ ret = Ret("panic", <<"previous_word_boundary", o>>)

\* C26: on an indented line that follows another line,
\* previous_word_boundary returns the start of the first token from inside
\* that token, the start of the indentation from the start of the first
\* token, and from the start of the indentation the start of the last token
\* of the previous line.
C26_IndentedLineSteps ==
  \A l \in 1..Len(text), f \in 1..Len(text) :
    Indented(text, l, f) =>
      /\ \A o \in (f + 1)..TokenEnd(text, f) :
           PwbCalled(o) => ret = Ret("previous_word_boundary", <<o, f>>)
      /\ PwbCalled(f) => ret = Ret("previous_word_boundary", <<f, l>>)
      /\ LET prev == {s \in TokenStarts(text) :
                        /\ s < l
                        /\ LineStartBefore(text, s) =
                             LineStartBefore(text, l - 1)}
         IN (PwbCalled(l) /\ prev # {}) =>
              ret = Ret("previous_word_boundary", <<l, SetMax(prev)>>)

\* C27: from an offset strictly inside the leading indentation of a line,
\* after its start and before the first token, previous_word_boundary
\* returns the start of the indentation.
C27_InsideIndentationStays ==
  \A l \in 0..Len(text), f \in 0..Len(text) :
    Indented(text, l, f) =>
      \A o \in (l + 1)..(f - 1) :
        PwbCalled(o) => ret = Ret("previous_word_boundary", <<o, l>>)

\* C28: word_range_at_offset returns the range of the token that contains
\* the offset, start <= offset < end; the range (offset, offset) when the
\* character at the offset is whitespace; (len, len) when offset >= len.
C28_WordRangeIsContainingToken ==
  ret.op = "word_range_at_offset" =>
    LET o == ret.val[1]
        len == Len(text)
    IN ret.val[2] =
         IF o >= len THEN <<len, len>>
         ELSE IF is_whitespace(text[o + 1]) THEN <<o, o>>
         ELSE LET s == SetMax({k \in TokenStarts(text) : k <= o})
              IN <<s, TokenEnd(text, s)>>

\* C30: after update(edit, new_text) the cache has no entry for a line at
\* or after the line in which the edit starts, and the entries of the lines
\* before it are the ones it had.
C30_UpdateEvictsFromEditLine ==
  [][ret'.op = "update" =>
       LET edit == ret'.val[1]
           edit_line ==
             Cardinality({i \in DOMAIN source_text' :
                            /\ source_text'[i] = "LF"
                            /\ ByteIdx(source_text', i) < edit.start_byte})
       IN /\ \A l \in DOMAIN highlight_cache' : l < edit_line
          /\ \A l \in DOMAIN highlight_cache :
               l < edit_line =>
                 /\ l \in DOMAIN highlight_cache'
                 /\ highlight_cache'[l] = highlight_cache[l]]_vars

\* The cache entry of the line l is stale after the step: the line is gone
\* or its text is not the text that was shaped.
StaleLayout(l) ==
  \/ l >= len_lines(text)
  \/ l >= len_lines(text')
  \/ RopeLine(text, l) # RopeLine(text', l)

\* What the claim C31 says of an edit of the range a..b by the text s: the
\* entries before the start line stay, no stale entry stays, and the edit
\* evicts the one entry of its line when it is confined to a line and adds
\* or removes no line break, and every entry from its start line otherwise.
EvictsOnlyChangedLines(a, b, s) ==
  LET start_line == char_to_line(text, a)
      breaks == HasLF(s) \/ HasLF(SubSeq(text, a + 1, b))
  IN /\ \A l \in line_layouts : l < start_line => l \in line_layouts'
     /\ \A l \in line_layouts' : ~StaleLayout(l)
     /\ line_layouts' = IF breaks THEN {l \in line_layouts : l < start_line}
                        ELSE line_layouts \ {start_line}

\* The entries before the start line stay and every entry from the start
\* line is evicted.
EvictsFromStartLine(a) ==
  LET start_line == char_to_line(text, a)
  IN /\ \A l \in line_layouts' : ~StaleLayout(l)
     /\ line_layouts' = {l \in line_layouts : l < start_line}

\* C31, as claimed: every edit made through the editor (text replacement,
\* Enter, IME replace-and-mark) keeps the entries before its start line,
\* keeps no entry of a changed line, evicts only the entry of its line when
\* it stays on one line and adds or removes no line break, and evicts every
\* entry from its start line otherwise.
C31_EveryEditEvictsOnlyChangedLines ==
  [][/\ \A a \in 0..Len(text), b \in 0..Len(text), s \in EditorTexts :
          \/ /\ ret'.op = "replace_text_in_range"
             /\ ReplaceTextInRangeAt(a, b, s)
          \/ /\ ret'.op = "replace_and_mark_text_in_range"
             /\ ReplaceAndMarkTextInRangeAt(a, b, s)
          => EvictsOnlyChangedLines(a, b, s)
     /\ \A cursor \in 0..Len(text) :
          (ret'.op = "enter" /\ EnterAt(cursor))
            => EvictsOnlyChangedLines(cursor, cursor, <<"LF">>)]_vars

\* C31, amended: replace_text_in_range does as claimed; Enter and the IME
\* replace-and-mark keep the entries before the start line and evict every
\* entry from the start line, whatever the edit.
C31_ReplaceEvictsOnlyChangedLines ==
  [][/\ \A a \in 0..Len(text), b \in 0..Len(text), s \in EditorTexts :
          /\ (ret'.op = "replace_text_in_range"
                /\ ReplaceTextInRangeAt(a, b, s))
               => EvictsOnlyChangedLines(a, b, s)
          /\ (ret'.op = "replace_and_mark_text_in_range"
                /\ ReplaceAndMarkTextInRangeAt(a, b, s))
               => EvictsFromStartLine(a)
     /\ \A cursor \in 0..Len(text) :
          (ret'.op = "enter" /\ EnterAt(cursor))
            => EvictsFromStartLine(cursor)]_vars

\* A replacement on one line of a two-line text has left the entry of the
\* other line in the cache.
C31_Witness ==
  /\ ret.op = "replace_text_in_range"
  /\ text = <<"LF">>
  /\ line_layouts = {1}

\* The bases that name a category of TokenType.
RecognisedBases ==
  {"keyword", "function", "type", "string", "number", "boolean", "comment",
   "operator", "variable", "property", "constant", "punctuation",
   "attribute", "lifetime", "embedded"}

\* The category a TokenType belongs to, the base its name starts with.
CategoryOf(tt) ==
  CASE tt \in {"Keyword", "KeywordControl"} -> "keyword"
    [] tt \in {"Function", "FunctionMethod", "FunctionSpecial"} -> "function"
    [] tt \in {"Type", "TypeBuiltin", "TypeInterface", "TypeClass"} -> "type"
    [] tt \in {"String", "StringEscape", "StringRegex"} -> "string"
    [] tt \in {"Comment", "CommentDoc"} -> "comment"
    [] tt \in {"Variable", "VariableSpecial", "VariableParameter"} -> "variable"
    [] tt \in {"Constant", "ConstantBuiltin"} -> "constant"
    [] tt \in {"Punctuation", "PunctuationBracket", "PunctuationDelimiter",
               "PunctuationSpecial"} -> "punctuation"
    [] tt = "Number" -> "number"
    [] tt = "Boolean" -> "boolean"
    [] tt = "Operator" -> "operator"
    [] tt = "Property" -> "property"
    [] tt = "Attribute" -> "attribute"
    [] tt = "Lifetime" -> "lifetime"
    [] tt = "Embedded" -> "embedded"

\* C32: capture_name_to_token_type returns None for every name whose base
\* is not recognised and a TokenType of the base's category for every
\* other name; the index mapping sends every index past its table to
\* Variable.
C32_UnknownNamesDropped ==
  /\ ret.op = "capture_name_to_token_type" =>
       LET base == ret.val[1][1]
       IN IF base \in RecognisedBases
            THEN ret.val[2] # None /\ CategoryOf(ret.val[2][1]) = base
            ELSE ret.val[2] = None
  /\ (ret.op = "map_highlight_index_to_token_type" /\ ret.val[1][2] >= 18)
       => ret.val[2] = "Variable"

\* A name with a recognised modifier and an unknown base was dropped.
C32_Witness ==
  ret = Ret("capture_name_to_token_type", <<<<"unknown", "method">>, None>>)

\* The TokenType a highlight name denotes.
Denoted(name) ==
  CASE name = <<"keyword">> -> "Keyword"
    [] name = <<"keyword", "control">> -> "KeywordControl"
    [] name = <<"function">> -> "Function"
    [] name = <<"function", "method">> -> "FunctionMethod"
    [] name = <<"function", "macro">> -> "FunctionSpecial"
    [] name = <<"type">> -> "Type"
    [] name = <<"type", "builtin">> -> "TypeBuiltin"
    [] name = <<"string">> -> "String"
    [] name = <<"string", "escape">> -> "StringEscape"
    [] name = <<"number">> -> "Number"
    [] name = <<"comment">> -> "Comment"
    [] name = <<"variable">> -> "Variable"
    [] name = <<"property">> -> "Property"
    [] name = <<"constant">> -> "Constant"
    [] name = <<"operator">> -> "Operator"
    [] name = <<"punctuation", "bracket">> -> "PunctuationBracket"
    [] name = <<"attribute">> -> "Attribute"
    [] name = <<"lifetime">> -> "Lifetime"

\* C40: under every language configuration, the index i of a name of its
\* highlight_names list is mapped to the TokenType that the name denotes.
C40_IndexDenotesName ==
  ret.op = "map_highlight_index_to_token_type" =>
    LET names == LanguageConfigs[ret.val[1][1]]
        idx == ret.val[1][2]
    IN idx < Len(names) => ret.val[2] = Denoted(names[idx + 1])

\* The selection end opposite the cursor.
Anchor(range, reversed) == IF reversed THEN range.end ELSE range.start

\* C33: after any sequence of move_to and select_to calls the selection has
\* start <= end, and each select_to(offset) keeps the anchor, puts the cursor
\* at offset and leaves selection_reversed true when the cursor is strictly
\* before the anchor and false when it is strictly after.
C33_SelectToKeepsAnchor ==
  /\ [](selected_range.start <= selected_range.end)
  /\ [][ret'.op = "select_to" =>
          LET anchor == Anchor(selected_range, selection_reversed)
              offset == ret'.val
          IN /\ Anchor(selected_range', selection_reversed') = anchor
             /\ cursor_offset(selected_range', selection_reversed') = offset
             /\ (offset < anchor => selection_reversed')
             /\ (offset > anchor => ~selection_reversed')]_vars

\* A select_to that crossed the anchor: the anchor 2 is now the range's end.
C33_Witness ==
  /\ ret = Ret("select_to", 0)
  /\ selected_range = [start |-> 0, end |-> 2]
  /\ selection_reversed

\* The resume timer of the most recent pause_blinking has not fired yet.
PauseTimerPending == BlinkTimer("resume", blink_epoch) \in blink_timers

\* C39: after pause_blinking the cursor is visible and stays visible until
\* the resume timer of the most recent pause_blinking fires; a timer callback
\* whose epoch differs from blink_epoch changes no state, and at most one
\* pending timer carries the current epoch.
C39_PausedCursorStaysVisible ==
  /\ [](PauseTimerPending => visible)
  /\ [](Cardinality({tm \in blink_timers : tm.epoch = blink_epoch}) <= 1)
  /\ [][(ret'.op = "blink_timer" /\ ret'.val.epoch # blink_epoch) =>
          UNCHANGED <<blink_epoch, blinking_paused, visible, enabled>>]_vars

\* C34: after ensure_cache_size(viewport) returns, whatever the viewport and
\* the cache held before, the layout cache holds at most max_cache_size (200)
\* shaped lines.
C34_CacheWithinLimit ==
  ret.op = "ensure_cache_size" => Cardinality(line_layouts) <= MAX_CACHE_SIZE

\* The transaction ids of a buffer stack, bottom first.
Ids(stack) == [i \in DOMAIN stack |-> stack[i].id]

\* C35: after any sequence of Editor editing operations the Editor's undo
\* stack holds the same transaction ids in the same order as the buffer's
\* undo stack, and the Editor's redo stack the same ids as the buffer's redo
\* stack.
C35_EditorStacksMirrorBuffer ==
  ~panicked => /\ editor_undo_stack = Ids(undo_stack)
               /\ editor_redo_stack = Ids(redo_stack)

\* C36: with a non-decreasing clock and a fixed grouping window, whenever the
\* redo stack is non-empty the top undo transaction's timestamp is at least
\* one full window older than the current time, and a commit made while the
\* redo stack is non-empty starts a new undo transaction instead of merging.
C36_NoMergeAfterUndo ==
  /\ []((redo_stack # << >> /\ undo_stack # << >>) =>
          now - undo_stack[Len(undo_stack)].timestamp >= group_interval)
  /\ [][(redo_stack # << >> /\ ret'.op = "transaction" /\
          undo_stack' # undo_stack) =>
          /\ Len(undo_stack') = Len(undo_stack) + 1
          /\ SubSeq(undo_stack', 1, Len(undo_stack)) = undo_stack]_vars

\* An undo left an older transaction on the undo stack, one window old.
C36_Witness ==
  /\ ret.op = "undo"
  /\ redo_stack # << >>
  /\ undo_stack # << >>
  /\ group_interval = DEFAULT_GROUP_INTERVAL_MS
  /\ now - undo_stack[Len(undo_stack)].timestamp = group_interval

\* What a highlighter that has just parsed src, with nothing cached, returns
\* for the range a..b.
FreshQuery(src, a, b) ==
  highlights_for_range(src, lines_count(src), FALSE, None, << >>, a, b)

\* C37: highlights_for_range(r) returns the same spans, each exactly once,
\* whether it is answered from the per-line cache or by a fresh query: after
\* any sequence of parse, update and highlights_for_range calls the result for
\* r is what a fresh query for r against the current text returns.
C37_HitEqualsFreshQuery ==
  ret.op = "highlights_for_range" =>
    ret.val[2] = FreshQuery(source_text, ret.val[1][1], ret.val[1][2]).highlights

\* C38: for every document and every offset in [0, len],
\* previous_word_boundary returns a value in [0, offset], below offset when
\* offset > 0, and next_word_boundary returns a value in [offset, len], above
\* offset when offset < len; neither call panics.
C38_WordMovesProgress ==
  /\ (ret.op = "previous_word_boundary" /\ ret.val[1] <= Len(text)) =>
       /\ ret.val[2] \in 0..ret.val[1]
       /\ ret.val[1] > 0 => ret.val[2] < ret.val[1]
  /\ (ret.op = "next_word_boundary" /\ ret.val[1] <= Len(text)) =>
       /\ ret.val[2] \in ret.val[1]..Len(text)
       /\ ret.val[1] < Len(text) => ret.val[2] > ret.val[1]
  /\ ~(ret.op = "panic" /\ ret.val[2] <= Len(text))

====
